---- MODULE Spec2Model ----
(***************************************************************************)
(* Model of the minesweeper game-state engine of useMinesweeper.ts.        *)
(* The React state (MinesweeperState) is the variable `state`; every       *)
(* handler (openCell, toggleFlag, chordOpen, reset) is a function from the *)
(* previous state to the next one, exactly like the updater it passes to   *)
(* setState.  Math.random() in placeMines is a nondeterministic choice, so *)
(* the handlers that place mines return a SET of possible next states.     *)
(*                                                                         *)
(* Eight specifications share the module.  Spec runs the hook with a       *)
(* render after every call.  SpecRender lets several calls happen between  *)
(* two renders.  SpecFlood runs one floodFill call visit by visit.         *)
(* SpecForm runs the settings form of App.tsx.  SpecPlace runs the hook on *)
(* boards large enough for the first click's safe zone.  SpecTimer runs    *)
(* the game timer of App.tsx.  SpecTouch and SpecPointer run the gestures  *)
(* of one Cell, with native touch events and with pointer events.  Each    *)
(* specification keeps the variables of the others at their idle values.   *)
(***************************************************************************)
EXTENDS Integers, Sequences, FiniteSets, TLC

\* ---------------------------------------------------------------- bounds
\* boards have at most MaxRows rows, MaxCols columns and MaxCells cells;
\* a config asks for at most MaxMines mines
MaxRows == 3
MaxCols == 3
MaxCells == 9
MaxMines == 3
\* SpecRender: boards of at most MaxRenderCells cells, at most MaxBatch
\* calls between two renders
MaxRenderCells == 6
MaxBatch == 2
\* SpecFlood: at most MaxFloodFlags flags on the board a fill starts from
MaxFloodFlags == 2
\* SpecForm: the numbers typed into the form lie within Spread of a
\* boundary of the clamps
Spread == 1

VARIABLES
  state,       \* the MinesweeperState held by useState: board, status, flagCount, config
  lastOp,      \* history: the call that produced the current state object
  firstClick,  \* history: <<row, col>> of the open that placed the mines, << >> while idle
  rendered,    \* SpecRender: the state the last render saw (what the closures read)
  pendingOps,  \* SpecRender: calls made since the last render
  fboard,      \* SpecFlood: the board floodFill mutates
  callStack,   \* SpecFlood: floodFill calls not yet run, next call first
  opens,       \* SpecFlood: per cell, how often `cell.isOpen = true` has run
  rowsInput,   \* SpecForm: text of the rows input
  colsInput,   \* SpecForm: text of the columns input
  minesInput,  \* SpecForm: text of the mines input
  applied,     \* SpecForm: << >>, or <<nextConfig>> last handed to reset
  time,        \* SpecTimer: the elapsed-seconds counter of App
  timerRef,    \* SpecTimer: timerRef.current, << >> for null or <<id>>
  intervals,   \* SpecTimer: ids of the intervals window.setInterval has running
  cellPos,                 \* cell specifications: <<row, col>> of the Cell component
  timeouts,                \* cell specifications: pending window.setTimeout callbacks
  invoked,                 \* history: the onOpen/onFlag/onChord calls of the latest gesture
  touches,                 \* history: << >>, or <<the latest gesture made on the cell>>
  longPressTimerRef,       \* longPressTimerRef.current, << >> for null or <<id>>
  hasLongPressedRef,       \* hasLongPressedRef.current
  touchStartTimeRef,       \* SpecTouch: touchStartTimeRef.current
  touchStartPosRef,        \* SpecTouch: touchStartPosRef.current, << >> for null or <<x>>
  isTouchActiveRef,        \* SpecTouch: isTouchActiveRef.current
  pointerStartTimeRef,     \* SpecPointer: pointerStartTimeRef.current
  pointerStartPosRef,      \* SpecPointer: pointerStartPosRef.current, << >> for null or <<x>>
  isPointerDownRef,        \* SpecPointer: isPointerDownRef.current
  isNativeTouchHandledRef  \* SpecPointer: isNativeTouchHandledRef.current

gameVars == <<state, lastOp, firstClick>>
renderVars == <<rendered, pendingOps>>
floodVars == <<fboard, callStack, opens>>
formVars == <<rowsInput, colsInput, minesInput, applied>>
timerVars == <<time, timerRef, intervals>>
touchRefs == <<touchStartTimeRef, touchStartPosRef, isTouchActiveRef>>
pointerRefs == <<pointerStartTimeRef, pointerStartPosRef, isPointerDownRef, isNativeTouchHandledRef>>
cellVars == <<cellPos, timeouts, invoked, touches, longPressTimerRef, hasLongPressedRef,
              touchRefs, pointerRefs>>
uiVars == <<timerVars, cellVars>>
vars == <<gameVars, renderVars, floodVars, formVars, uiVars>>

\* idle values of the variables a specification does not use
NoGame == state = << >> /\ lastOp = "none" /\ firstClick = << >>
NoRender == rendered = << >> /\ pendingOps = 0
NoFlood == fboard = << >> /\ callStack = << >> /\ opens = << >>
NoForm == rowsInput = << >> /\ colsInput = << >> /\ minesInput = << >> /\ applied = << >>
NoTimer == time = 0 /\ timerRef = << >> /\ intervals = {}
NoTouchRefs == touchStartTimeRef = 0 /\ touchStartPosRef = << >> /\ isTouchActiveRef = FALSE
NoPointerRefs ==
  /\ pointerStartTimeRef = 0 /\ pointerStartPosRef = << >>
  /\ isPointerDownRef = FALSE /\ isNativeTouchHandledRef = FALSE
NoCell ==
  /\ cellPos = << >> /\ timeouts = {} /\ invoked = << >> /\ touches = << >>
  /\ longPressTimerRef = << >> /\ hasLongPressedRef = FALSE
  /\ NoTouchRefs /\ NoPointerRefs
NoUi == NoTimer /\ NoCell

\* ------------------------------------------------------------ data model
GameStatus == {"idle", "playing", "won", "lost"}

\* GameConfig values handed to the hook: boards of at most MaxRows rows,
\* MaxCols columns and MaxCells cells, with 0..MaxMines configured mines
Configs ==
  { cfg \in [rows : 1..MaxRows, cols : 1..MaxCols, mines : 0..MaxMines] :
      cfg.rows * cfg.cols <= MaxCells }

\* the eight direction offsets, in the order of the source
DIRECTIONS ==
  << <<-1, -1>>, <<-1, 0>>, <<-1, 1>>,
     <<0, -1>>,             <<0, 1>>,
     <<1, -1>>,  <<1, 0>>,  <<1, 1>> >>

Min(a, b) == IF a <= b THEN a ELSE b

\* board[row][col] of the source; TLA+ sequences are 1-based
At(b, row, col) == b[row + 1][col + 1]

createEmptyBoard(rows, cols) ==
  [r \in 1..rows |->
    [c \in 1..cols |->
      [row |-> r - 1, col |-> c - 1,
       isOpen |-> FALSE, isFlagged |-> FALSE, isMine |-> FALSE,
       neighborCount |-> 0]]]

\* the initial value of useState and the object reset installs
create(cfg) ==
  [board |-> createEmptyBoard(cfg.rows, cfg.cols),
   status |-> "idle",
   flagCount |-> 0,
   config |-> cfg]

isValidCell(row, col, rows, cols) ==
  row >= 0 /\ row < rows /\ col >= 0 /\ col < cols

\* the neighbouring cells of (row, col), in DIRECTIONS order
getNeighbors(row, col, b) ==
  LET rows == Len(b)
      cols == Len(b[1])
      inBoard(d) == isValidCell(row + d[1], col + d[2], rows, cols)
      ds == SelectSeq(DIRECTIONS, inBoard)
  IN  [i \in 1..Len(ds) |-> At(b, row + ds[i][1], col + ds[i][2])]

\* ------------------------------------------------------- mine placement
\* faulty variant: only the clicked cell is excluded
excludeSet_clickedOnly(excludeRow, excludeCol, rows, cols) ==
  {<<excludeRow, excludeCol>>}

\* faulty variant: nothing is excluded
excludeSet_empty(excludeRow, excludeCol, rows, cols) ==
  {}

\* the exclusion set of placeMines: the clicked cell and its in-board neighbours
excludeSet(excludeRow, excludeCol, rows, cols) ==
  {<<excludeRow, excludeCol>>} \cup
  {<<excludeRow + DIRECTIONS[i][1], excludeCol + DIRECTIONS[i][2]>> :
     i \in {j \in 1..Len(DIRECTIONS) :
              isValidCell(excludeRow + DIRECTIONS[j][1],
                          excludeCol + DIRECTIONS[j][2], rows, cols)}}

\* the positions outside the exclusion set, collected row by row
availablePositions(excludeRow, excludeCol, rows, cols) ==
  LET all == [i \in 1..(rows * cols) |-> <<(i - 1) \div cols, (i - 1) % cols>>]
      ex == excludeSet(excludeRow, excludeCol, rows, cols)
      free(p) == p \notin ex
  IN  SelectSeq(all, free)

\* Array.prototype.splice(index, 1) with a 0-based index
splice(seq, index) ==
  [i \in 1..(Len(seq) - 1) |-> IF i <= index THEN seq[i] ELSE seq[i + 1]]

\* faulty variant: the chosen position stays in availablePositions
RECURSIVE pickMines_noSplice(_, _, _, _)
pickMines_noSplice(b, avail, i, actualMineCount) ==
  IF i >= actualMineCount THEN {b}
  ELSE UNION { pickMines_noSplice(
                 [b EXCEPT ![avail[randomIndex + 1][1] + 1]
                            [avail[randomIndex + 1][2] + 1].isMine = TRUE],
                 avail, i + 1, actualMineCount) :
               randomIndex \in 0..(Len(avail) - 1) }

\* the random selection loop of placeMines: every board the loop can
\* produce from iteration i on, randomIndex ranging over 0..length-1
RECURSIVE pickMines(_, _, _, _)
pickMines(b, avail, i, actualMineCount) ==
  IF i >= actualMineCount THEN {b}
  ELSE UNION { pickMines(
                 [b EXCEPT ![avail[randomIndex + 1][1] + 1]
                            [avail[randomIndex + 1][2] + 1].isMine = TRUE],
                 splice(avail, randomIndex), i + 1, actualMineCount) :
               randomIndex \in 0..(Len(avail) - 1) }

\* faulty variant: diagonal neighbours are not counted
computeNeighborCounts_orthogonal(b) ==
  [r \in 1..Len(b) |->
    [c \in 1..Len(b[r]) |->
      IF ~b[r][c].isMine
        THEN LET isMineCell(n) == n.isMine /\ (n.row = r - 1 \/ n.col = c - 1)
             IN  [b[r][c] EXCEPT !.neighborCount =
                    Len(SelectSeq(getNeighbors(r - 1, c - 1, b), isMineCell))]
        ELSE b[r][c]]]

\* the pass that sets neighborCount of every non-mine cell
computeNeighborCounts(b) ==
  [r \in 1..Len(b) |->
    [c \in 1..Len(b[r]) |->
      IF ~b[r][c].isMine
        THEN LET isMineCell(n) == n.isMine
             IN  [b[r][c] EXCEPT !.neighborCount =
                    Len(SelectSeq(getNeighbors(r - 1, c - 1, b), isMineCell))]
        ELSE b[r][c]]]

\* placeMines mutates the board it is given; here: the set of boards it can leave
placeMines(b, excludeRow, excludeCol, mineCount) ==
  LET rows == Len(b)
      cols == Len(b[1])
      avail == availablePositions(excludeRow, excludeCol, rows, cols)
      actualMineCount == Min(mineCount, Len(avail))
  IN  { computeNeighborCounts(m) : m \in pickMines(b, avail, 0, actualMineCount) }

\* ------------------------------------------------------------ flood fill
\* floodFill(board, row, col).  The source recurses into the neighbours in
\* DIRECTIONS order, mutating the board in place; floodVisit runs the same
\* visits in the same order with the pending calls kept on an explicit
\* stack: the calls for the neighbours of a cell are pushed in front of the
\* calls still pending for its ancestors.
\* faulty variant: the isFlagged guard is missing
RECURSIVE floodVisit_ignoreFlags(_, _)
floodVisit_ignoreFlags(b, pending) ==
  IF Len(pending) = 0 THEN b
  ELSE
  LET row == pending[1][1]
      col == pending[1][2]
      cell == At(b, row, col)
  IN
  IF cell.isOpen THEN floodVisit_ignoreFlags(b, Tail(pending))
  ELSE
  LET opened == [b EXCEPT ![row + 1][col + 1].isOpen = TRUE] IN
  IF cell.neighborCount = 0 /\ ~cell.isMine
    THEN LET neighbors == getNeighbors(row, col, opened)
             calls == [i \in 1..Len(neighbors) |-> <<neighbors[i].row, neighbors[i].col>>]
         IN  floodVisit_ignoreFlags(opened, calls \o Tail(pending))
    ELSE floodVisit_ignoreFlags(opened, Tail(pending))

RECURSIVE floodVisit(_, _)
floodVisit(b, pending) ==
  IF Len(pending) = 0 THEN b
  ELSE
  LET row == pending[1][1]
      col == pending[1][2]
      cell == At(b, row, col)
  IN
  IF cell.isOpen \/ cell.isFlagged THEN floodVisit(b, Tail(pending))
  ELSE
  LET opened == [b EXCEPT ![row + 1][col + 1].isOpen = TRUE] IN
  IF cell.neighborCount = 0 /\ ~cell.isMine
    THEN LET neighbors == getNeighbors(row, col, opened)
             calls == [i \in 1..Len(neighbors) |-> <<neighbors[i].row, neighbors[i].col>>]
         IN  floodVisit(opened, calls \o Tail(pending))
    ELSE floodVisit(opened, Tail(pending))

floodFill_ignoreFlags(b, row, col) == floodVisit_ignoreFlags(b, << <<row, col>> >>)

\* faulty variant: the cell is opened but the fill never spreads
floodFill_noSpread(b, row, col) ==
  IF At(b, row, col).isOpen \/ At(b, row, col).isFlagged THEN b
  ELSE [b EXCEPT ![row + 1][col + 1].isOpen = TRUE]

floodFill(b, row, col) == floodVisit(b, << <<row, col>> >>)

\* ------------------------------------------------------------- win check
\* faulty variant: mines have to be open too
checkWin_allOpen(b) ==
  \A r \in 1..Len(b) : \A c \in 1..Len(b[r]) : b[r][c].isOpen

\* true iff no closed non-mine cell remains
checkWin(b) ==
  \A r \in 1..Len(b) : \A c \in 1..Len(b[r]) :
    ~(~b[r][c].isOpen /\ ~b[r][c].isMine)

\* faulty variant: the other mines stay closed
revealMines_none(b) == b

\* faulty variant: the reveal takes the flags off the mines it opens
revealMines_unflag(b) ==
  [r \in 1..Len(b) |->
    [c \in 1..Len(b[r]) |->
      IF b[r][c].isMine
        THEN [b[r][c] EXCEPT !.isOpen = TRUE, !.isFlagged = FALSE]
        ELSE b[r][c]]]

\* faulty variant: the reveal shows the mines and nothing else
revealMines_hideRest(b) ==
  [r \in 1..Len(b) |->
    [c \in 1..Len(b[r]) |-> [b[r][c] EXCEPT !.isOpen = b[r][c].isMine]]]

\* the loop that opens every mine when the game is lost
revealMines(b) ==
  [r \in 1..Len(b) |->
    [c \in 1..Len(b[r]) |->
      IF b[r][c].isMine THEN [b[r][c] EXCEPT !.isOpen = TRUE] ELSE b[r][c]]]

\* ------------------------------------------------------------- handlers
\* faulty variant: the won/lost guard is missing
openCell_afterGame(prevState, row, col) ==
  LET board == prevState.board
      status == prevState.status
      config == prevState.config
      cell == At(board, row, col)
  IN
  IF cell.isOpen \/ cell.isFlagged THEN {prevState}
  ELSE
  LET placed == IF status = "idle"
                  THEN placeMines(board, row, col, config.mines)
                  ELSE {board}
  IN  { IF At(newBoard, row, col).isMine
          THEN [prevState EXCEPT
                  !.board = revealMines([newBoard EXCEPT ![row + 1][col + 1].isOpen = TRUE]),
                  !.status = "lost"]
          ELSE LET filled == floodFill(newBoard, row, col)
               IN  [prevState EXCEPT
                      !.board = filled,
                      !.status = IF checkWin(filled) THEN "won" ELSE "playing"]
        : newBoard \in placed }

\* faulty variant: a flagged cell can be opened
openCell_ignoreFlag(prevState, row, col) ==
  LET board == prevState.board
      status == prevState.status
      config == prevState.config
  IN
  IF status = "won" \/ status = "lost" THEN {prevState}
  ELSE
  IF At(board, row, col).isOpen THEN {prevState}
  ELSE
  LET placed == IF status = "idle"
                  THEN placeMines(board, row, col, config.mines)
                  ELSE {board}
  IN  { IF At(newBoard, row, col).isMine
          THEN [prevState EXCEPT
                  !.board = revealMines([newBoard EXCEPT ![row + 1][col + 1].isOpen = TRUE]),
                  !.status = "lost"]
          ELSE LET filled == floodFill_ignoreFlags(newBoard, row, col)
               IN  [prevState EXCEPT
                      !.board = filled,
                      !.status = IF checkWin(filled) THEN "won" ELSE "playing"]
        : newBoard \in placed }

\* faulty variant: mines are placed again on every open of a game in play
openCell_replant(prevState, row, col) ==
  LET board == prevState.board
      status == prevState.status
      config == prevState.config
  IN
  IF status = "won" \/ status = "lost" THEN {prevState}
  ELSE
  LET cell == At(board, row, col) IN
  IF cell.isOpen \/ cell.isFlagged THEN {prevState}
  ELSE
  LET placed == placeMines(board, row, col, config.mines)
  IN  { IF At(newBoard, row, col).isMine
          THEN [prevState EXCEPT
                  !.board = revealMines([newBoard EXCEPT ![row + 1][col + 1].isOpen = TRUE]),
                  !.status = "lost"]
          ELSE LET filled == floodFill(newBoard, row, col)
                   won == checkWin(filled)
               IN  [prevState EXCEPT
                      !.board = filled,
                      !.status = IF won THEN "won" ELSE "playing"]
        : newBoard \in placed }

\* the updater of openCell: the set of states it can return for prevState
openCell(prevState, row, col) ==
  LET board == prevState.board
      status == prevState.status
      config == prevState.config
  IN
  IF status = "won" \/ status = "lost" THEN {prevState}
  ELSE
  LET cell == At(board, row, col) IN
  IF cell.isOpen \/ cell.isFlagged THEN {prevState}
  ELSE
  LET placed == IF status = "idle"
                  THEN placeMines(board, row, col, config.mines)
                  ELSE {board}
  IN  { IF At(newBoard, row, col).isMine
          THEN [prevState EXCEPT
                  !.board = revealMines([newBoard EXCEPT ![row + 1][col + 1].isOpen = TRUE]),
                  !.status = "lost"]
          ELSE LET filled == floodFill(newBoard, row, col)
                   won == checkWin(filled)
               IN  [prevState EXCEPT
                      !.board = filled,
                      !.status = IF won THEN "won" ELSE "playing"]
        : newBoard \in placed }

\* faulty variant: flagCount grows on every toggle
toggleFlag_alwaysAdd(prevState, row, col) ==
  LET board == prevState.board
      status == prevState.status
  IN
  IF status = "idle" \/ status = "won" \/ status = "lost" THEN prevState
  ELSE
  IF At(board, row, col).isOpen THEN prevState
  ELSE [prevState EXCEPT
          !.board = [board EXCEPT ![row + 1][col + 1].isFlagged = ~At(board, row, col).isFlagged],
          !.flagCount = prevState.flagCount + 1]

\* faulty variant: only the idle guard is kept
toggleFlag_afterGame(prevState, row, col) ==
  LET board == prevState.board
      status == prevState.status
      flagged == ~At(board, row, col).isFlagged
  IN
  IF status = "idle" THEN prevState
  ELSE
  IF At(board, row, col).isOpen THEN prevState
  ELSE [prevState EXCEPT
          !.board = [board EXCEPT ![row + 1][col + 1].isFlagged = flagged],
          !.flagCount = prevState.flagCount + (IF flagged THEN 1 ELSE -1)]

\* faulty variant: the idle guard is missing
toggleFlag_inIdle(prevState, row, col) ==
  LET board == prevState.board
      status == prevState.status
      flagged == ~At(board, row, col).isFlagged
  IN
  IF status = "won" \/ status = "lost" THEN prevState
  ELSE
  IF At(board, row, col).isOpen THEN prevState
  ELSE [prevState EXCEPT
          !.board = [board EXCEPT ![row + 1][col + 1].isFlagged = flagged],
          !.flagCount = prevState.flagCount + (IF flagged THEN 1 ELSE -1)]

\* faulty variant: the flag is set, never cleared
toggleFlag_neverClears(prevState, row, col) ==
  LET board == prevState.board
      status == prevState.status
  IN
  IF status = "idle" \/ status = "won" \/ status = "lost" THEN prevState
  ELSE
  IF At(board, row, col).isOpen THEN prevState
  ELSE [prevState EXCEPT
          !.board = [board EXCEPT ![row + 1][col + 1].isFlagged = TRUE],
          !.flagCount = prevState.flagCount + (IF At(board, row, col).isFlagged THEN 0 ELSE 1)]

\* faulty variant: the isOpen guard is missing
toggleFlag_onOpen(prevState, row, col) ==
  LET board == prevState.board
      status == prevState.status
  IN
  IF status = "idle" \/ status = "won" \/ status = "lost" THEN prevState
  ELSE
  LET flagged == ~At(board, row, col).isFlagged
      newBoard == [board EXCEPT ![row + 1][col + 1].isFlagged = flagged]
  IN  [prevState EXCEPT
         !.board = newBoard,
         !.flagCount = prevState.flagCount + (IF flagged THEN 1 ELSE -1)]

\* the updater of toggleFlag
toggleFlag(prevState, row, col) ==
  LET board == prevState.board
      status == prevState.status
  IN
  IF status = "idle" \/ status = "won" \/ status = "lost" THEN prevState
  ELSE
  IF At(board, row, col).isOpen THEN prevState
  ELSE
  LET flagged == ~At(board, row, col).isFlagged
      newBoard == [board EXCEPT ![row + 1][col + 1].isFlagged = flagged]
  IN  [prevState EXCEPT
         !.board = newBoard,
         !.flagCount = prevState.flagCount + (IF flagged THEN 1 ELSE -1)]

\* faulty variant: a mine among the neighbours is left alone
RECURSIVE chordNeighbors_skipMines(_, _, _, _)
chordNeighbors_skipMines(newBoard, hitMine, neighbors, i) ==
  IF i > Len(neighbors) THEN <<newBoard, hitMine>>
  ELSE
  LET neighbor == neighbors[i] IN
  IF ~neighbor.isFlagged /\ ~neighbor.isOpen
       /\ ~At(newBoard, neighbor.row, neighbor.col).isMine
    THEN chordNeighbors_skipMines(
           floodFill(newBoard, neighbor.row, neighbor.col), hitMine, neighbors, i + 1)
    ELSE chordNeighbors_skipMines(newBoard, hitMine, neighbors, i + 1)

\* faulty variant: the loop ends after the first neighbour it opens
RECURSIVE chordNeighbors_stopAfterFirst(_, _, _, _)
chordNeighbors_stopAfterFirst(newBoard, hitMine, neighbors, i) ==
  IF i > Len(neighbors) THEN <<newBoard, hitMine>>
  ELSE
  LET neighbor == neighbors[i] IN
  IF ~neighbor.isFlagged /\ ~neighbor.isOpen
    THEN IF At(newBoard, neighbor.row, neighbor.col).isMine
           THEN <<[newBoard EXCEPT ![neighbor.row + 1][neighbor.col + 1].isOpen = TRUE], TRUE>>
           ELSE <<floodFill(newBoard, neighbor.row, neighbor.col), hitMine>>
    ELSE chordNeighbors_stopAfterFirst(newBoard, hitMine, neighbors, i + 1)

\* faulty variant: a mine is opened without hitMine being set
RECURSIVE chordNeighbors_noHit(_, _, _, _)
chordNeighbors_noHit(newBoard, hitMine, neighbors, i) ==
  IF i > Len(neighbors) THEN <<newBoard, hitMine>>
  ELSE
  LET neighbor == neighbors[i] IN
  IF ~neighbor.isFlagged /\ ~neighbor.isOpen
    THEN IF At(newBoard, neighbor.row, neighbor.col).isMine
           THEN chordNeighbors_noHit(
                  [newBoard EXCEPT ![neighbor.row + 1][neighbor.col + 1].isOpen = TRUE],
                  hitMine, neighbors, i + 1)
           ELSE chordNeighbors_noHit(
                  floodFill(newBoard, neighbor.row, neighbor.col),
                  hitMine, neighbors, i + 1)
    ELSE chordNeighbors_noHit(newBoard, hitMine, neighbors, i + 1)

\* the loop of chordOpen over the neighbours of the chorded cell: the
\* guard reads the neighbour as it was in prevState, the effect goes to
\* newBoard; the result is <<newBoard, hitMine>>
RECURSIVE chordNeighbors(_, _, _, _)
chordNeighbors(newBoard, hitMine, neighbors, i) ==
  IF i > Len(neighbors) THEN <<newBoard, hitMine>>
  ELSE
  LET neighbor == neighbors[i] IN
  IF ~neighbor.isFlagged /\ ~neighbor.isOpen
    THEN IF At(newBoard, neighbor.row, neighbor.col).isMine
           THEN chordNeighbors(
                  [newBoard EXCEPT ![neighbor.row + 1][neighbor.col + 1].isOpen = TRUE],
                  TRUE, neighbors, i + 1)
           ELSE chordNeighbors(
                  floodFill(newBoard, neighbor.row, neighbor.col),
                  hitMine, neighbors, i + 1)
    ELSE chordNeighbors(newBoard, hitMine, neighbors, i + 1)

\* faulty variant: the status guard only stops an idle game
chordOpen_afterGame(prevState, row, col) ==
  LET board == prevState.board
      status == prevState.status
      cell == At(board, row, col)
      neighbors == getNeighbors(row, col, board)
      isFlaggedCell(n) == n.isFlagged
      flaggedCount == Len(SelectSeq(neighbors, isFlaggedCell))
      pass == chordNeighbors(board, FALSE, neighbors, 1)
  IN
  IF status = "idle" THEN prevState
  ELSE IF ~cell.isOpen \/ cell.neighborCount = 0 THEN prevState
  ELSE IF flaggedCount # cell.neighborCount THEN prevState
  ELSE IF pass[2]
    THEN [prevState EXCEPT !.board = revealMines(pass[1]), !.status = "lost"]
    ELSE [prevState EXCEPT
            !.board = pass[1],
            !.status = IF checkWin(pass[1]) THEN "won" ELSE "playing"]

\* faulty variant: a closed numbered cell can be chorded
chordOpen_closedCell(prevState, row, col) ==
  LET board == prevState.board
      status == prevState.status
      cell == At(board, row, col)
      neighbors == getNeighbors(row, col, board)
      isFlaggedCell(n) == n.isFlagged
      flaggedCount == Len(SelectSeq(neighbors, isFlaggedCell))
      pass == chordNeighbors(board, FALSE, neighbors, 1)
  IN
  IF status # "playing" THEN prevState
  ELSE IF cell.neighborCount = 0 THEN prevState
  ELSE IF flaggedCount # cell.neighborCount THEN prevState
  ELSE IF pass[2]
    THEN [prevState EXCEPT !.board = revealMines(pass[1]), !.status = "lost"]
    ELSE [prevState EXCEPT
            !.board = pass[1],
            !.status = IF checkWin(pass[1]) THEN "won" ELSE "playing"]

\* faulty variant: more flags than the number also satisfy the chord
chordOpen_atLeast(prevState, row, col) ==
  LET board == prevState.board
      status == prevState.status
      cell == At(board, row, col)
      neighbors == getNeighbors(row, col, board)
      isFlaggedCell(n) == n.isFlagged
      flaggedCount == Len(SelectSeq(neighbors, isFlaggedCell))
      pass == chordNeighbors(board, FALSE, neighbors, 1)
  IN
  IF status # "playing" THEN prevState
  ELSE IF ~cell.isOpen \/ cell.neighborCount = 0 THEN prevState
  ELSE IF flaggedCount < cell.neighborCount THEN prevState
  ELSE IF pass[2]
    THEN [prevState EXCEPT !.board = revealMines(pass[1]), !.status = "lost"]
    ELSE [prevState EXCEPT
            !.board = pass[1],
            !.status = IF checkWin(pass[1]) THEN "won" ELSE "playing"]

\* the updater of chordOpen
chordOpen(prevState, row, col) ==
  LET board == prevState.board
      status == prevState.status
  IN
  IF status # "playing" THEN prevState
  ELSE
  LET cell == At(board, row, col) IN
  IF ~cell.isOpen \/ cell.neighborCount = 0 THEN prevState
  ELSE
  LET neighbors == getNeighbors(row, col, board)
      isFlaggedCell(n) == n.isFlagged
      flaggedCount == Len(SelectSeq(neighbors, isFlaggedCell))
  IN
  IF flaggedCount # cell.neighborCount THEN prevState
  ELSE
  LET pass == chordNeighbors(board, FALSE, neighbors, 1)
      newBoard == pass[1]
      hitMine == pass[2]
  IN
  IF hitMine
    THEN [prevState EXCEPT !.board = revealMines(newBoard), !.status = "lost"]
    ELSE [prevState EXCEPT
            !.board = newBoard,
            !.status = IF checkWin(newBoard) THEN "won" ELSE "playing"]

\* faulty variant: the board is kept when the config does not change
reset_keepBoard(prevState, newConfig) ==
  LET config == IF Len(newConfig) > 0 THEN newConfig[1] ELSE prevState.config
  IN  IF config = prevState.config
        THEN [prevState EXCEPT !.status = "idle", !.flagCount = 0]
        ELSE create(config)

\* reset(newConfig?): newConfig is << >> when the argument is omitted and
\* <<cfg>> when it is given; config = newConfig || state.config
reset(prevState, newConfig) ==
  LET config == IF Len(newConfig) > 0 THEN newConfig[1] ELSE prevState.config
  IN  create(config)

\* --------------------------------------------------------- state machine
\* A call whose updater returns prevState installs nothing: the step leaves
\* every variable unchanged.  lastOp and firstClick are history variables.
Init ==
  /\ \E initialConfig \in Configs : state = create(initialConfig)
  /\ lastOp = "create"
  /\ firstClick = << >>
  /\ NoRender /\ NoFlood /\ NoForm /\ NoUi

OpenCell(row, col) ==
  /\ isValidCell(row, col, state.config.rows, state.config.cols)
  /\ UNCHANGED <<renderVars, floodVars, formVars, uiVars>>
  /\ \E next \in openCell(state, row, col) :
       IF next = state
         THEN UNCHANGED gameVars
         ELSE /\ state' = next
              /\ lastOp' = "open"
              /\ firstClick' = IF state.status = "idle" THEN <<row, col>> ELSE firstClick

ToggleFlag(row, col) ==
  /\ isValidCell(row, col, state.config.rows, state.config.cols)
  /\ UNCHANGED <<renderVars, floodVars, formVars, uiVars>>
  /\ LET next == toggleFlag(state, row, col) IN
       IF next = state
         THEN UNCHANGED gameVars
         ELSE /\ state' = next
              /\ lastOp' = "flag"
              /\ UNCHANGED firstClick

ChordOpen(row, col) ==
  /\ isValidCell(row, col, state.config.rows, state.config.cols)
  /\ UNCHANGED <<renderVars, floodVars, formVars, uiVars>>
  /\ LET next == chordOpen(state, row, col) IN
       IF next = state
         THEN UNCHANGED gameVars
         ELSE /\ state' = next
              /\ lastOp' = "chord"
              /\ UNCHANGED firstClick

Reset(newConfig) ==
  /\ state' = reset(state, newConfig)
  /\ lastOp' = "reset"
  /\ firstClick' = << >>
  /\ UNCHANGED <<renderVars, floodVars, formVars, uiVars>>

Next ==
  \/ \E row \in 0..(MaxRows - 1), col \in 0..(MaxCols - 1) : OpenCell(row, col)
  \/ \E row \in 0..(MaxRows - 1), col \in 0..(MaxCols - 1) : ToggleFlag(row, col)
  \/ \E row \in 0..(MaxRows - 1), col \in 0..(MaxCols - 1) : ChordOpen(row, col)
  \/ \E newConfig \in {<< >>} \cup {<<cfg>> : cfg \in Configs} : Reset(newConfig)

Spec == Init /\ [][Next]_vars

TypeOK ==
  /\ state.status \in GameStatus
  /\ state.config \in Configs
  /\ state.flagCount \in Int
  /\ Len(state.board) = state.config.rows
  /\ lastOp \in {"create", "open", "flag", "chord", "reset"}

\* ------------------------------------------- calls between two renders
\* React queues what the handlers pass to setState and runs the queue at
\* the next render: an updater function receives the state the previous
\* queued update produced, an object replaces it.  `state` is that latest
\* state; `rendered` is the state the last render returned, which is what
\* a handler closure reads when it mentions `state`.
RenderConfigs == { cfg \in Configs : cfg.rows * cfg.cols <= MaxRenderCells }

\* faulty variant: the updater works on the snapshot of the last render
prevStateOf_stale(latest, snapshot) == snapshot

\* the argument of the updater in setState(prevState => ...)
prevStateOf(latest, snapshot) == latest

InitRender ==
  /\ \E initialConfig \in RenderConfigs : state = create(initialConfig)
  /\ lastOp = "create"
  /\ firstClick = << >>
  /\ rendered = state
  /\ pendingOps = 0
  /\ NoFlood /\ NoForm /\ NoUi

\* the cells a click can name are those of the rendered board; the updater
\* runs on the latest board
Clickable(row, col) ==
  /\ isValidCell(row, col, rendered.config.rows, rendered.config.cols)
  /\ isValidCell(row, col, state.config.rows, state.config.cols)

DispatchOpen(row, col) ==
  /\ pendingOps < MaxBatch
  /\ Clickable(row, col)
  /\ LET prevState == prevStateOf(state, rendered) IN
     \E next \in openCell(prevState, row, col) :
       /\ state' = next
       /\ firstClick' = IF prevState.status = "idle" /\ next # prevState
                          THEN <<row, col>> ELSE firstClick
  /\ lastOp' = "open"
  /\ pendingOps' = pendingOps + 1
  /\ UNCHANGED <<rendered, floodVars, formVars, uiVars>>

DispatchFlag(row, col) ==
  /\ pendingOps < MaxBatch
  /\ Clickable(row, col)
  /\ state' = toggleFlag(prevStateOf(state, rendered), row, col)
  /\ lastOp' = "flag"
  /\ pendingOps' = pendingOps + 1
  /\ UNCHANGED <<firstClick, rendered, floodVars, formVars, uiVars>>

DispatchChord(row, col) ==
  /\ pendingOps < MaxBatch
  /\ Clickable(row, col)
  /\ state' = chordOpen(prevStateOf(state, rendered), row, col)
  /\ lastOp' = "chord"
  /\ pendingOps' = pendingOps + 1
  /\ UNCHANGED <<firstClick, rendered, floodVars, formVars, uiVars>>

\* reset passes an object, not an updater, and takes the fallback config
\* from the `state` of its closure
DispatchReset(newConfig) ==
  /\ pendingOps < MaxBatch
  /\ state' = reset(rendered, newConfig)
  /\ lastOp' = "reset"
  /\ firstClick' = << >>
  /\ pendingOps' = pendingOps + 1
  /\ UNCHANGED <<rendered, floodVars, formVars, uiVars>>

\* the component renders again: the closures now read the latest state
Render ==
  /\ pendingOps > 0
  /\ rendered' = state
  /\ pendingOps' = 0
  /\ UNCHANGED <<gameVars, floodVars, formVars, uiVars>>

NextRender ==
  \/ \E row \in 0..(MaxRows - 1), col \in 0..(MaxCols - 1) : DispatchOpen(row, col)
  \/ \E row \in 0..(MaxRows - 1), col \in 0..(MaxCols - 1) : DispatchFlag(row, col)
  \/ \E row \in 0..(MaxRows - 1), col \in 0..(MaxCols - 1) : DispatchChord(row, col)
  \/ \E newConfig \in {<< >>} \cup {<<cfg>> : cfg \in RenderConfigs} : DispatchReset(newConfig)
  \/ Render

SpecRender == InitRender /\ [][NextRender]_vars

\* ------------------------------------------------ one fill, visit by visit
\* faulty variant: the fill recurses from every cell it opens
visit_expandAll(b, stack) ==
  LET row == stack[1][1]
      col == stack[1][2]
      cell == At(b, row, col)
  IN
  IF cell.isOpen \/ cell.isFlagged
    THEN [board |-> b, stack |-> Tail(stack), opened |-> FALSE]
    ELSE
    LET opened == [b EXCEPT ![row + 1][col + 1].isOpen = TRUE]
        neighbors == getNeighbors(row, col, opened)
        calls == [i \in 1..Len(neighbors) |-> <<neighbors[i].row, neighbors[i].col>>]
    IN  [board |-> opened, stack |-> calls \o Tail(stack), opened |-> TRUE]

\* one call of floodFill, up to its recursive calls: the call on top of
\* the stack runs, the calls it makes are pushed in DIRECTIONS order;
\* `opened` tells whether `cell.isOpen = true` ran
visit(b, stack) ==
  LET row == stack[1][1]
      col == stack[1][2]
      cell == At(b, row, col)
  IN
  IF cell.isOpen \/ cell.isFlagged
    THEN [board |-> b, stack |-> Tail(stack), opened |-> FALSE]
    ELSE
    LET opened == [b EXCEPT ![row + 1][col + 1].isOpen = TRUE] IN
    IF cell.neighborCount = 0 /\ ~cell.isMine
      THEN LET neighbors == getNeighbors(row, col, opened)
               calls == [i \in 1..Len(neighbors) |-> <<neighbors[i].row, neighbors[i].col>>]
           IN  [board |-> opened, stack |-> calls \o Tail(stack), opened |-> TRUE]
      ELSE [board |-> opened, stack |-> Tail(stack), opened |-> TRUE]

CellsOf(b) == { <<r, c>> : r \in 0..(Len(b) - 1), c \in 0..(Len(b[1]) - 1) }

\* the boards openCell hands to placeMines and then to floodFill on the
\* first open of a game with config cfg, with the opened cell
FirstFills(cfg) ==
  UNION { { <<newBoard, p[1], p[2]>> :
              newBoard \in placeMines(createEmptyBoard(cfg.rows, cfg.cols),
                                      p[1], p[2], cfg.mines) }
          : p \in (0..(cfg.rows - 1)) \X (0..(cfg.cols - 1)) }

\* the board after toggleFlag has flagged the closed cells F
withFlags(b, F) ==
  [r \in 1..Len(b) |->
    [c \in 1..Len(b[1]) |->
      IF <<r - 1, c - 1>> \in F THEN [b[r][c] EXCEPT !.isFlagged = TRUE] ELSE b[r][c]]]

\* the boards of a game in play after its first open and at most
\* MaxFloodFlags flags, with a closed, unflagged, mine-free cell that
\* openCell or chordOpen hands to floodFill
LaterFills(cfg) ==
  UNION { LET b == floodFill(f[1], f[2], f[3])
              closed == { q \in CellsOf(b) : ~At(b, q[1], q[2]).isOpen }
          IN  IF checkWin(b) THEN {}
              ELSE { <<withFlags(b, F), q[1], q[2]>> :
                       <<F, q>> \in { <<F, q>> \in (SUBSET closed) \X closed :
                                   /\ Cardinality(F) <= MaxFloodFlags
                                   /\ q \notin F
                                   /\ ~At(b, q[1], q[2]).isMine } }
          : f \in FirstFills(cfg) }

InitFlood ==
  /\ \E cfg \in Configs :
       \E f \in FirstFills(cfg) \cup LaterFills(cfg) :
         /\ fboard = f[1]
         /\ callStack = << <<f[2], f[3]>> >>
         /\ opens = [q \in CellsOf(f[1]) |-> 0]
  /\ NoGame /\ NoRender /\ NoForm /\ NoUi

FloodStep ==
  /\ Len(callStack) > 0
  /\ LET v == visit(fboard, callStack) IN
       /\ fboard' = v.board
       /\ callStack' = v.stack
       /\ opens' = IF v.opened
                     THEN [opens EXCEPT ![callStack[1]] = @ + 1]
                     ELSE opens
  /\ UNCHANGED <<gameVars, renderVars, formVars, uiVars>>

NextFlood == FloodStep

\* the recursion runs to completion once started
SpecFlood == InitFlood /\ [][NextFlood]_vars /\ WF_vars(FloodStep)

\* ------------------------------------------- the settings form of App.tsx
MIN_ROWS == 5
MAX_ROWS == 30
MIN_COLS == 5
MAX_COLS == 40

\* App.tsx imports DEFAULT_CONFIG from the hook module; the value taken
\* here is the hook's own default, DIFFICULTY_PRESETS.beginner
DEFAULT_CONFIG == [rows |-> 9, cols |-> 9, mines |-> 10]

Max(a, b) == IF a >= b THEN a ELSE b

\* The text of an input: empty, the decimal form of an integer, or some
\* other text.  A number value is <<n>>, NaN is << >>.
EmptyText == [kind |-> "empty", num |-> 0]
OtherText == [kind |-> "other", num |-> 0]

\* String(n)
String(n) == [kind |-> "number", num |-> n]

\* Number(text): '' converts to 0, text that is no number to NaN
Number(text) ==
  IF text.kind = "number" THEN <<text.num>>
  ELSE IF text.kind = "empty" THEN <<0>>
  ELSE << >>

isNaN(value) == Len(value) = 0

\* faulty variant: the value is only bounded from above
clampNumber_noFloor(value, min, max) ==
  IF isNaN(value) THEN min ELSE Min(max, value[1])

clampNumber(value, min, max) ==
  IF isNaN(value) THEN min ELSE Min(max, Max(min, value[1]))

clampMines(value, rows, cols) ==
  LET maxMines == Max(1, rows * cols - 1)
  IN  clampNumber(value, 1, maxMines)

\* Math.round(total * density) with density 0.15, 0.17 or 0.20, in
\* hundredths: Math.round rounds a half upwards
getRecommendedMines(rows, cols) ==
  LET total == rows * cols
      density == IF total <= 100 THEN 15 ELSE IF total <= 300 THEN 17 ELSE 20
  IN  clampMines(<<(total * density + 50) \div 100>>, rows, cols)

\* the values App derives from the inputs on every render
rowsValue ==
  clampNumber(IF rowsInput = EmptyText THEN <<DEFAULT_CONFIG.rows>> ELSE Number(rowsInput),
              MIN_ROWS, MAX_ROWS)

colsValue ==
  clampNumber(IF colsInput = EmptyText THEN <<DEFAULT_CONFIG.cols>> ELSE Number(colsInput),
              MIN_COLS, MAX_COLS)

recommendedMines == getRecommendedMines(rowsValue, colsValue)

minesValue ==
  clampMines(IF minesInput = EmptyText THEN <<recommendedMines>> ELSE Number(minesInput),
             rowsValue, colsValue)

\* the integers within Spread of a member of S
Near(S) == { n + d : n \in S, d \in (0 - Spread)..Spread }

\* what the user types: nothing, something that is no number, or an
\* integer near a boundary of the clamps
TypedRows == {EmptyText, OtherText} \cup { String(n) : n \in Near({0, MIN_ROWS, MAX_ROWS}) }
TypedCols == {EmptyText, OtherText} \cup { String(n) : n \in Near({0, MIN_COLS, MAX_COLS}) }
TypedMines ==
  {EmptyText, OtherText} \cup { String(n) : n \in Near({0, rowsValue * colsValue - 1}) }

InitForm ==
  /\ rowsInput = String(DEFAULT_CONFIG.rows)
  /\ colsInput = String(DEFAULT_CONFIG.cols)
  /\ minesInput = String(DEFAULT_CONFIG.mines)
  /\ applied = << >>
  /\ NoGame /\ NoRender /\ NoFlood /\ NoUi

\* `applied` is <<nextConfig>> right after handleApplySettings has handed
\* nextConfig to reset, and << >> after any other handler
handleRowsChange(value) ==
  /\ IF value = EmptyText THEN rowsInput' = EmptyText
     ELSE LET numeric == Number(value) IN
          IF isNaN(numeric) THEN UNCHANGED rowsInput
          ELSE rowsInput' = String(Min(MAX_ROWS, Max(0, numeric[1])))
  /\ applied' = << >>
  /\ UNCHANGED <<colsInput, minesInput, gameVars, renderVars, floodVars, uiVars>>

handleColsChange(value) ==
  /\ IF value = EmptyText THEN colsInput' = EmptyText
     ELSE LET numeric == Number(value) IN
          IF isNaN(numeric) THEN UNCHANGED colsInput
          ELSE colsInput' = String(Min(MAX_COLS, Max(0, numeric[1])))
  /\ applied' = << >>
  /\ UNCHANGED <<rowsInput, minesInput, gameVars, renderVars, floodVars, uiVars>>

handleMinesChange(value) ==
  /\ IF value = EmptyText THEN minesInput' = EmptyText
     ELSE LET numeric == Number(value) IN
          IF isNaN(numeric) THEN UNCHANGED minesInput
          ELSE LET maxMines == rowsValue * colsValue - 1
               IN  minesInput' = String(Min(maxMines, Max(0, numeric[1])))
  /\ applied' = << >>
  /\ UNCHANGED <<rowsInput, colsInput, gameVars, renderVars, floodVars, uiVars>>

handleApplySettings ==
  LET nextConfig == [rows |-> rowsValue, cols |-> colsValue, mines |-> minesValue]
  IN  /\ rowsInput' = String(nextConfig.rows)
      /\ colsInput' = String(nextConfig.cols)
      /\ minesInput' = String(nextConfig.mines)
      /\ applied' = <<nextConfig>>
      /\ UNCHANGED <<gameVars, renderVars, floodVars, uiVars>>

handleUseRecommendation ==
  /\ minesInput' = String(recommendedMines)
  /\ applied' = << >>
  /\ UNCHANGED <<rowsInput, colsInput, gameVars, renderVars, floodVars, uiVars>>

NextForm ==
  \/ \E value \in TypedRows : handleRowsChange(value)
  \/ \E value \in TypedCols : handleColsChange(value)
  \/ \E value \in TypedMines : handleMinesChange(value)
  \/ handleApplySettings
  \/ handleUseRecommendation

SpecForm == InitForm /\ [][NextForm]_vars

\* ------------------------------------------------ the mine counter
\* faulty variant: the engine value is clamped
remainingMines_clamped(s) == Max(0, s.config.mines - s.flagCount)

\* remainingMines as the hook returns it
remainingMines(s) == s.config.mines - s.flagCount

\* the number App.tsx hands to formatLED for the mine counter
displayedMines(s) == Max(0, remainingMines(s))

\* ------------------------------------- coordinates outside the board
\* board[row][col] is undefined, or board[row] is, and the handler then
\* reads a property of undefined: a TypeError
cellUndefined(board, row, col) == ~isValidCell(row, col, Len(board), Len(board[1]))

\* how the updater of each handler ends, from its guards in source order:
\* "prevState" when a status guard returns before the cell is read,
\* "TypeError" when the read of the cell throws, "cell" when the cell exists
openCellOutcome(prevState, row, col) ==
  IF prevState.status = "won" \/ prevState.status = "lost" THEN "prevState"
  ELSE IF cellUndefined(prevState.board, row, col) THEN "TypeError"
  ELSE "cell"

toggleFlagOutcome(prevState, row, col) ==
  IF prevState.status = "idle" \/ prevState.status = "won" \/ prevState.status = "lost"
    THEN "prevState"
  ELSE IF cellUndefined(prevState.board, row, col) THEN "TypeError"
  ELSE "cell"

chordOpenOutcome(prevState, row, col) ==
  IF prevState.status # "playing" THEN "prevState"
  ELSE IF cellUndefined(prevState.board, row, col) THEN "TypeError"
  ELSE "cell"

\* ------------------------------------------------- vocabulary of the claims
\* recomputed from the board by brute force, without getNeighbors or checkWin
Positions == { <<r, c>> : r \in 0..(state.config.rows - 1), c \in 0..(state.config.cols - 1) }

CellAt(p) == At(state.board, p[1], p[2])

Abs(n) == IF n < 0 THEN -n ELSE n

\* the 3x3 block around p, p included, clipped to the board
Zone(p) == { q \in Positions : Abs(q[1] - p[1]) <= 1 /\ Abs(q[2] - p[2]) <= 1 }

MinesOf(b) ==
  { q \in { <<r, c>> : r \in 0..(Len(b) - 1), c \in 0..(Len(b[1]) - 1) } : At(b, q[1], q[2]).isMine }

Mines == MinesOf(state.board)

Flagged == { q \in Positions : CellAt(q).isFlagged }

AllSafeOpen == \A q \in Positions : ~CellAt(q).isMine => CellAt(q).isOpen

\* ---------------------------------------------------------------- claims

\* C1: first-click safety.  From every idle state, for every config and
\* every valid (row, col), every state open can return has status playing
\* or won, never lost, and the clicked cell is open.
C1_FirstClickSafe ==
  state.status = "idle" =>
    \A p \in Positions : \A next \in openCell(state, p[1], p[2]) :
      /\ next.status \in {"playing", "won"}
      /\ At(next.board, p[1], p[2]).isOpen

\* a state returned by the first open of a game whose mines were placed
C1_Witness ==
  /\ firstClick # << >>
  /\ lastOp = "open"
  /\ state \in openCell(create(state.config), firstClick[1], firstClick[2])
  /\ state.status = "playing"
  /\ Cardinality(Mines) >= 2

\* C2: in every reachable state flagCount equals the number of cells with
\* isFlagged = TRUE.
C2_FlagCount ==
  state.flagCount = Cardinality(Flagged)

\* a flag was cleared again while another one stays on the board
C2_Witness ==
  /\ lastOp = "flag"
  /\ state.flagCount = 2
  /\ \E q \in Positions : CellAt(q).isFlagged /\ CellAt(q).isMine
  /\ \E q \in Positions : CellAt(q).isFlagged /\ ~CellAt(q).isMine

\* C3 as stated: in every reachable state, the state reached by a loss
\* included, no cell is both open and flagged.
C3_NoOpenFlagged ==
  \A q \in Positions : ~(CellAt(q).isOpen /\ CellAt(q).isFlagged)

\* C3 amended: a cell that is both open and flagged is a mine of a lost
\* game; in idle, playing and won states no cell is both open and flagged.
C3_OpenFlaggedOnlyLostMine ==
  \A q \in Positions :
    (CellAt(q).isOpen /\ CellAt(q).isFlagged) =>
      (CellAt(q).isMine /\ state.status = "lost")

\* a loss revealed a mine the player had flagged, next to a flag on a safe cell
C3_Witness ==
  /\ state.status = "lost"
  /\ \E q \in Positions : CellAt(q).isOpen /\ CellAt(q).isFlagged
  /\ \E q \in Positions : ~CellAt(q).isOpen /\ CellAt(q).isFlagged

\* C4: when status is lost, through open or through chordOpen, every cell
\* with isMine = TRUE has isOpen = TRUE.
C4_LossRevealsAllMines ==
  state.status = "lost" => \A q \in Mines : CellAt(q).isOpen

\* a chord lost the game on a board with several mines
C4_Witness ==
  /\ state.status = "lost"
  /\ lastOp = "chord"
  /\ Cardinality(Mines) >= 2

\* C5: status is won if and only if every non-mine cell is open; a state
\* in which all non-mine cells are open is never playing or lost.
C5_WinIffAllSafeOpen ==
  (state.status = "won") <=> AllSafeOpen

\* a chord opened the last safe cells of a board that has mines
C5_Witness ==
  /\ state.status = "won"
  /\ lastOp = "chord"
  /\ Cardinality(Mines) >= 1

\* C6: once status is won or lost, open, toggleFlag and chordOpen return
\* their input state for every cell.
C6_TerminalIdempotent ==
  state.status \in {"won", "lost"} =>
    \A p \in Positions :
      /\ openCell(state, p[1], p[2]) = {state}
      /\ toggleFlag(state, p[1], p[2]) = state
      /\ chordOpen(state, p[1], p[2]) = state

\* a lost game that still has a closed unflagged safe cell and a flag
C6_Witness ==
  /\ state.status = "lost"
  /\ \E q \in Positions : ~CellAt(q).isOpen /\ ~CellAt(q).isFlagged /\ ~CellAt(q).isMine
  /\ state.flagCount >= 1

\* C7: the only step that changes a won or lost status is reset, and it
\* leads to idle; status becomes idle by reset only; status leaves idle by
\* open only, and the first open that changes the state does leave idle,
\* so the step out of idle is taken once between two resets.
C7_StatusMachine ==
  [][ /\ (state.status \in {"won", "lost"} /\ state'.status # state.status)
           => (lastOp' = "reset" /\ state'.status = "idle")
      /\ (state.status # "idle" /\ state'.status = "idle") => lastOp' = "reset"
      /\ (state.status = "idle" /\ state'.status # "idle")
           => (lastOp' = "open" /\ firstClick = << >> /\ firstClick' # << >>)
      /\ (state.status = "idle" /\ lastOp' = "open") => state'.status # "idle"
      /\ (state.status = "playing" /\ state'.status # "playing")
           => lastOp' \in {"open", "chord", "reset"}
    ]_vars

\* a game that left idle, was played with flags and ended by an open
C7_Witness ==
  /\ state.status = "won"
  /\ lastOp = "open"
  /\ state.flagCount >= 1
  /\ firstClick # << >>

\* C8: after the first open at (r, c) the number of mine cells equals
\* min(config.mines, rows*cols - size of the exclusion zone of (r, c)).
C8_MineCount ==
  firstClick # << >> =>
    Cardinality(Mines) =
      Min(state.config.mines,
          state.config.rows * state.config.cols - Cardinality(Zone(firstClick)))

\* fewer free cells than configured mines: the count is capped, above zero
C8_Witness ==
  /\ firstClick # << >>
  /\ Cardinality(Mines) >= 1
  /\ Cardinality(Mines) < state.config.mines

\* C9: for every non-mine cell, neighborCount equals the number of mines
\* among its up-to-8 in-board neighbours.
C9_NeighborCount ==
  \A q \in Positions :
    ~CellAt(q).isMine =>
      CellAt(q).neighborCount = Cardinality((Zone(q) \ {q}) \cap Mines)

\* a safe cell with two mines around it, one of them diagonal
C9_Witness ==
  /\ state.status = "playing"
  /\ \E q \in Positions :
       /\ ~CellAt(q).isMine
       /\ CellAt(q).neighborCount = 2
       /\ \E m \in Mines : m[1] # q[1] /\ m[2] # q[2] /\ m \in Zone(q)

\* C10: after the first open at (r, c), neither (r, c) nor any in-board
\* neighbour of it is a mine, (r, c) has neighborCount 0, and (r, c) and
\* all its neighbours are open.
C10_ExclusionZone ==
  firstClick # << >> =>
    /\ \A q \in Zone(firstClick) : ~CellAt(q).isMine /\ CellAt(q).isOpen
    /\ CellAt(firstClick).neighborCount = 0

\* the state right after a first open in a corner, with mines placed
C10_Witness ==
  /\ firstClick = <<0, 0>>
  /\ lastOp = "open"
  /\ state.flagCount = 0
  /\ state.status = "playing"
  /\ Cardinality(Zone(firstClick)) = 4
  /\ Cardinality(Mines) >= 2

\* ------------------------------------- vocabulary of the claims, continued
PositionsOf(b) == { <<r, c>> : r \in 0..(Len(b) - 1), c \in 0..(Len(b[1]) - 1) }

OpenOf(b) == { q \in PositionsOf(b) : At(b, q[1], q[2]).isOpen }

Adjacent(p, q) == p # q /\ Abs(q[1] - p[1]) <= 1 /\ Abs(q[2] - p[2]) <= 1

\* a safe cell with no mine around it
ZeroCell(q) == ~CellAt(q).isMine /\ CellAt(q).neighborCount = 0

\* the cells of `through` that S reaches by steps between adjacent cells
RECURSIVE Region(_, _)
Region(through, S) ==
  LET S2 == S \cup { q \in through : \E p \in S : Adjacent(p, q) }
  IN  IF S2 = S THEN S ELSE Region(through, S2)

Border(R) == { q \in Positions : q \notin R /\ \E p \in R : Adjacent(p, q) }

\* C11 as stated: in a playing state, whatever flags are on the board,
\* opening a closed zero cell opens exactly its maximal 8-connected region
\* of zero cells plus the cells bordering that region.
C11_FloodClosure ==
  state.status = "playing" =>
    \A p \in Positions :
      (ZeroCell(p) /\ ~CellAt(p).isOpen /\ ~CellAt(p).isFlagged) =>
        LET R == Region({ q \in Positions : ZeroCell(q) }, {p})
        IN  \A next \in openCell(state, p[1], p[2]) :
              OpenOf(next.board) = OpenOf(state.board) \cup R \cup Border(R)

\* C11 amended: the region is the maximal 8-connected region of closed,
\* unflagged zero cells around the opened cell; that region and the
\* unflagged cells bordering it are opened, and no other cell is.
C11_FloodClosureAroundFlags ==
  state.status = "playing" =>
    \A p \in Positions :
      (ZeroCell(p) /\ ~CellAt(p).isOpen /\ ~CellAt(p).isFlagged) =>
        LET R == Region({ q \in Positions :
                            ZeroCell(q) /\ ~CellAt(q).isOpen /\ ~CellAt(q).isFlagged }, {p})
        IN  \A next \in openCell(state, p[1], p[2]) :
              OpenOf(next.board) =
                OpenOf(state.board) \cup R \cup { q \in Border(R) : ~CellAt(q).isFlagged }

\* an open left a flagged cell closed next to a zero cell it opened
C11_Witness ==
  /\ lastOp = "open"
  /\ state.status = "playing"
  /\ \E z \in Positions, f \in Positions :
       /\ ZeroCell(z) /\ CellAt(z).isOpen /\ z # firstClick /\ ~Adjacent(z, firstClick)
       /\ Adjacent(z, f) /\ CellAt(f).isFlagged /\ ~CellAt(f).isOpen

\* C12: opening a closed, unflagged mine while playing gives status lost
\* with that cell and every other mine open, and no open, toggleFlag or
\* chordOpen on any cell changes the state after that.
C12_MineOpenLoses ==
  state.status = "playing" =>
    \A p \in Positions :
      (CellAt(p).isMine /\ ~CellAt(p).isOpen /\ ~CellAt(p).isFlagged) =>
        \A next \in openCell(state, p[1], p[2]) :
          /\ next.status = "lost"
          /\ At(next.board, p[1], p[2]).isOpen
          /\ MinesOf(next.board) \subseteq OpenOf(next.board)
          /\ \A q \in Positions :
               /\ openCell(next, q[1], q[2]) = {next}
               /\ toggleFlag(next, q[1], q[2]) = next
               /\ chordOpen(next, q[1], q[2]) = next

\* a game lost by an open, with a numbered open cell whose flags match
C12_Witness ==
  /\ state.status = "lost"
  /\ lastOp = "open"
  /\ Cardinality(Mines) >= 2
  /\ \E q \in Positions :
       /\ CellAt(q).isOpen /\ ~CellAt(q).isMine /\ CellAt(q).neighborCount > 0
       /\ Cardinality(Zone(q) \cap Flagged) = CellAt(q).neighborCount

\* C13: open on a cell that is already open or is flagged returns its
\* input state, so no direct open opens a flagged cell.
C13_OpenNoOp ==
  \A p \in Positions :
    (CellAt(p).isOpen \/ CellAt(p).isFlagged) =>
      openCell(state, p[1], p[2]) = {state}

\* a game in progress with a flagged mine and a flagged safe cell
C13_Witness ==
  /\ state.status = "playing"
  /\ \E q \in Flagged : CellAt(q).isMine /\ ~CellAt(q).isOpen
  /\ \E q \in Flagged : ~CellAt(q).isMine /\ ~CellAt(q).isOpen

\* C14: toggleFlag returns its input state when status is idle, won or
\* lost, or when the target cell is open; no cell is flagged while idle.
C14_ToggleNoOp ==
  /\ \A p \in Positions :
       (state.status \in {"idle", "won", "lost"} \/ CellAt(p).isOpen) =>
         toggleFlag(state, p[1], p[2]) = state
  /\ state.status = "idle" => Flagged = {}

\* a new game started by reset from nothing but its config, and no flag on it
C14_Witness ==
  /\ state.status = "idle"
  /\ lastOp = "reset"
  /\ state.config.mines >= 2
  /\ state.config.rows * state.config.cols >= 6

\* C15: toggleFlag on a closed cell while playing flips isFlagged of that
\* cell, moves flagCount by +1 when the flag is set and by -1 when it is
\* cleared, and changes nothing else in the state.
C15_ToggleEffect ==
  state.status = "playing" =>
    \A p \in Positions :
      ~CellAt(p).isOpen =>
        LET next == toggleFlag(state, p[1], p[2]) IN
          /\ At(next.board, p[1], p[2]).isFlagged = ~CellAt(p).isFlagged
          /\ next.flagCount = state.flagCount + (IF CellAt(p).isFlagged THEN -1 ELSE 1)
          /\ next.status = state.status
          /\ next.config = state.config
          /\ PositionsOf(next.board) = Positions
          /\ \A q \in Positions :
               /\ At(next.board, q[1], q[2]).isOpen = CellAt(q).isOpen
               /\ At(next.board, q[1], q[2]).isMine = CellAt(q).isMine
               /\ At(next.board, q[1], q[2]).neighborCount = CellAt(q).neighborCount
               /\ At(next.board, q[1], q[2]).row = CellAt(q).row
               /\ At(next.board, q[1], q[2]).col = CellAt(q).col
               /\ q # p => At(next.board, q[1], q[2]).isFlagged = CellAt(q).isFlagged

\* a toggle left one flag on the board of a game in progress that has a
\* second closed cell
C15_Witness ==
  /\ state.status = "playing"
  /\ lastOp = "flag"
  /\ state.flagCount = 1
  /\ \E q \in Positions : ~CellAt(q).isOpen /\ ~CellAt(q).isFlagged

\* the flagged cells among the neighbours of p
FlaggedAround(p) == { q \in Flagged : Adjacent(p, q) }

\* the closed, unflagged neighbours of p
ClosedAround(p) ==
  { q \in Positions : Adjacent(p, q) /\ ~CellAt(q).isOpen /\ ~CellAt(q).isFlagged }

\* C16: chordOpen returns its input state unless status is playing and the
\* target cell is open with neighborCount > 0.
C16_ChordNoOp ==
  \A p \in Positions :
    ~(state.status = "playing" /\ CellAt(p).isOpen /\ CellAt(p).neighborCount > 0) =>
      chordOpen(state, p[1], p[2]) = state

\* a closed numbered cell with as many flags around it as its number and
\* a closed unflagged neighbour
C16_Witness ==
  /\ state.status = "playing"
  /\ \E p \in Positions :
       /\ ~CellAt(p).isOpen /\ ~CellAt(p).isMine /\ CellAt(p).neighborCount > 0
       /\ Cardinality(FlaggedAround(p)) = CellAt(p).neighborCount
       /\ ClosedAround(p) # {}

\* C17: chordOpen on an open numbered cell whose number of flagged
\* neighbours differs from its neighborCount returns its input state.
C17_ChordPrecondition ==
  \A p \in Positions :
    (CellAt(p).isOpen /\ CellAt(p).neighborCount > 0
       /\ Cardinality(FlaggedAround(p)) # CellAt(p).neighborCount) =>
      chordOpen(state, p[1], p[2]) = state

\* an open numbered cell with more flags around it than its number and a
\* closed unflagged neighbour
C17_Witness ==
  /\ state.status = "playing"
  /\ \E p \in Positions :
       /\ CellAt(p).isOpen /\ CellAt(p).neighborCount > 0
       /\ Cardinality(FlaggedAround(p)) > CellAt(p).neighborCount
       /\ ClosedAround(p) # {}

\* C18: a satisfied chord with a mine among the closed, unflagged
\* neighbours ends in status lost with every mine of the board open.
C18_ChordTrustsFlags ==
  state.status = "playing" =>
    \A p \in Positions :
      (CellAt(p).isOpen /\ CellAt(p).neighborCount > 0
         /\ Cardinality(FlaggedAround(p)) = CellAt(p).neighborCount
         /\ ClosedAround(p) \cap Mines # {}) =>
        LET next == chordOpen(state, p[1], p[2]) IN
          /\ next.status = "lost"
          /\ MinesOf(next.board) \subseteq OpenOf(next.board)

\* a chord lost the game; a flag sits on a safe neighbour of an open
\* numbered cell and a mine elsewhere on the board is flagged
C18_Witness ==
  /\ state.status = "lost"
  /\ lastOp = "chord"
  /\ \E q \in Flagged : ~CellAt(q).isMine
  /\ \E q \in Flagged : CellAt(q).isMine

\* C19: a satisfied chord with no mine among the closed, unflagged
\* neighbours opens every such neighbour, and around each of them that is
\* a zero cell every unflagged cell; it opens no flagged cell; status is
\* won if all non-mine cells are then open and playing otherwise.
C19_SafeChord ==
  state.status = "playing" =>
    \A p \in Positions :
      (CellAt(p).isOpen /\ CellAt(p).neighborCount > 0
         /\ Cardinality(FlaggedAround(p)) = CellAt(p).neighborCount
         /\ ClosedAround(p) \cap Mines = {}) =>
        LET next == chordOpen(state, p[1], p[2])
            nowOpen == OpenOf(next.board)
        IN
          /\ ClosedAround(p) \subseteq nowOpen
          /\ \A z \in ClosedAround(p) :
               ZeroCell(z) => { q \in Positions : Adjacent(z, q) /\ ~CellAt(q).isFlagged } \subseteq nowOpen
          /\ \A q \in Flagged : ~CellAt(q).isOpen => q \notin nowOpen
          /\ next.status =
               IF \A q \in Positions : At(next.board, q[1], q[2]).isMine \/ q \in nowOpen
                 THEN "won" ELSE "playing"

\* a chord opened cells and the game goes on
C19_Witness ==
  /\ state.status = "playing"
  /\ lastOp = "chord"
  /\ state.flagCount >= 1

\* a state nothing has been played on: a rows x cols grid of closed,
\* unflagged, mine-free cells with neighborCount 0, idle, no flag counted
Pristine(s, cfg) ==
  /\ s.config = cfg
  /\ s.status = "idle"
  /\ s.flagCount = 0
  /\ Len(s.board) = cfg.rows
  /\ \A r \in 1..cfg.rows :
       /\ Len(s.board[r]) = cfg.cols
       /\ \A c \in 1..cfg.cols :
            s.board[r][c] = [row |-> r - 1, col |-> c - 1,
                             isOpen |-> FALSE, isFlagged |-> FALSE,
                             isMine |-> FALSE, neighborCount |-> 0]

\* C20: the state installed at creation and the state reset returns from
\* any state, with or without a new config, is pristine for its config.
C20_ResetPristine ==
  /\ lastOp \in {"create", "reset"} => Pristine(state, state.config)
  /\ Pristine(reset(state, << >>), state.config)
  /\ \A cfg \in Configs : Pristine(reset(state, <<cfg>>), cfg)

\* a lost game with flags on a board that is not square, for reset to discard
C20_Witness ==
  /\ state.status = "lost"
  /\ state.flagCount >= 1
  /\ state.config.rows # state.config.cols
  /\ \E q \in Positions : CellAt(q).isOpen /\ ~CellAt(q).isMine

\* C21: reset() without a config keeps the config of the state it
\* replaces, also when it follows reset(newConfig) before any render.
\* Checked under SpecRender; a step of reset() must leave the config of the
\* latest state as it was.
C21_ResetKeepsConfig ==
  [][DispatchReset(<< >>) => state'.config = state.config]_vars

\* the configs the GameConfig invariant admits
ValidConfig(cfg) ==
  /\ cfg.rows > 0
  /\ cfg.cols > 0
  /\ cfg.mines > 0
  /\ cfg.mines < cfg.rows * cfg.cols

\* C22: create and reset reject an invalid config, so a state they have
\* installed never carries one.
C22_InvalidConfigRejected ==
  lastOp \in {"create", "reset"} => ValidConfig(state.config)

\* coordinates just outside the board, on every side
Outside ==
  { p \in ((0 - 1)..MaxRows) \X ((0 - 1)..MaxCols) :
      ~(p[1] >= 0 /\ p[1] < state.config.rows /\ p[2] >= 0 /\ p[2] < state.config.cols) }

\* C23: for coordinates outside the board the three operations end the
\* same way, and that way is the one they end in the idle state of the same
\* config (so it is the same in every status).
C23_UniformOutOfRange ==
  \A p \in Outside :
    /\ openCellOutcome(state, p[1], p[2]) = toggleFlagOutcome(state, p[1], p[2])
    /\ toggleFlagOutcome(state, p[1], p[2]) = chordOpenOutcome(state, p[1], p[2])
    /\ openCellOutcome(state, p[1], p[2]) = openCellOutcome(create(state.config), p[1], p[2])

\* C24: flagging a closed cell works whatever flagCount is; remainingMines
\* is config.mines minus the number of flags, negative when there are more
\* flags than mines, and only the displayed number is clamped to zero.
C24_UnlimitedFlags ==
  LET flags == Cardinality(Flagged) IN
  /\ remainingMines(state) = state.config.mines - flags
  /\ displayedMines(state) = IF flags > state.config.mines THEN 0
                             ELSE state.config.mines - flags
  /\ state.status = "playing" =>
       \A p \in Positions :
         ~CellAt(p).isOpen /\ ~CellAt(p).isFlagged =>
           LET next == toggleFlag(state, p[1], p[2]) IN
             /\ At(next.board, p[1], p[2]).isFlagged
             /\ next.flagCount = state.flagCount + 1
             /\ remainingMines(next) = remainingMines(state) - 1

C24_Witness ==
  /\ state.status = "playing"
  /\ lastOp = "flag"
  /\ Cardinality(Flagged) > state.config.mines
  /\ remainingMines(state) < 0
  /\ \E p \in Positions : ~CellAt(p).isOpen /\ ~CellAt(p).isFlagged

\* isMine and neighborCount of every cell, as a function of the position
Layout(b) ==
  [q \in PositionsOf(b) |-> <<At(b, q[1], q[2]).isMine, At(b, q[1], q[2]).neighborCount>>]

\* C25: once the first open has placed the mines, no step but a reset
\* changes isMine or neighborCount of any cell.
C25_PlacementOnce ==
  [][(state.status # "idle" /\ lastOp' # "reset")
       => Layout(state'.board) = Layout(state.board)]_vars

C25_Witness ==
  /\ state.status = "playing"
  /\ lastOp = "open"
  /\ Cardinality(Mines) >= 2
  /\ Cardinality(OpenOf(state.board)) >= 4
  /\ firstClick # << >> /\ ~CellAt(firstClick).isMine

\* C26: a config handleApplySettings hands to reset has 5..30 rows, 5..40
\* columns and 0 < mines < rows * cols.
C26_FormConfigValid ==
  applied # << >> =>
    LET cfg == applied[1] IN
      /\ 5 <= cfg.rows /\ cfg.rows <= 30
      /\ 5 <= cfg.cols /\ cfg.cols <= 40
      /\ 0 < cfg.mines /\ cfg.mines < cfg.rows * cfg.cols

C26_Witness ==
  /\ applied # << >>
  /\ applied[1].rows = 5
  /\ applied[1].cols = 5
  /\ applied[1].mines = 24

\* C27: a fill ends; a call on an open or flagged cell changes nothing and
\* makes no further call; each cell is opened at most once; further calls
\* are made only from a closed, unflagged, mine-free cell with
\* neighborCount 0.  Checked under SpecFlood.
C27_FloodTerminates ==
  /\ <>(Len(callStack) = 0)
  /\ [](\A q \in DOMAIN opens : opens[q] <= 1)
  /\ [][Len(callStack) > 0 =>
          LET cell == At(fboard, callStack[1][1], callStack[1][2]) IN
            /\ (cell.isOpen \/ cell.isFlagged) =>
                 fboard' = fboard /\ callStack' = Tail(callStack)
            /\ Len(callStack') >= Len(callStack) =>
                 /\ ~cell.isOpen /\ ~cell.isFlagged
                 /\ ~cell.isMine /\ cell.neighborCount = 0]_vars

C27_Witness ==
  /\ Len(callStack) = 0
  /\ Cardinality({ q \in DOMAIN opens : opens[q] = 1 }) >= 2
  /\ \E q \in DOMAIN opens, z \in DOMAIN opens :
       /\ At(fboard, q[1], q[2]).isFlagged
       /\ ~At(fboard, q[1], q[2]).isOpen
       /\ ~At(fboard, q[1], q[2]).isMine
       /\ opens[z] = 1
       /\ At(fboard, z[1], z[2]).neighborCount = 0
       /\ Adjacent(z, q)

\* C28: every open, toggleFlag or chordOpen call made between two renders
\* is applied to the state the previous call produced.  Checked under
\* SpecRender.
C28_AppliedInOrder ==
  [][(pendingOps' = pendingOps + 1 /\ lastOp' \in {"open", "flag", "chord"}) =>
       \E row \in 0..(state.config.rows - 1), col \in 0..(state.config.cols - 1) :
         \/ lastOp' = "open" /\ state' \in openCell(state, row, col)
         \/ lastOp' = "flag" /\ state' = toggleFlag(state, row, col)
         \/ lastOp' = "chord" /\ state' = chordOpen(state, row, col)]_vars

C28_Witness ==
  /\ pendingOps = 2
  /\ rendered.status = "playing"
  /\ rendered.flagCount = 0
  /\ state.flagCount = 2
  /\ state.config = rendered.config

TwoByTwo == [rows |-> 2, cols |-> 2, mines |-> 1]

\* C29 as stated: a started 2x2 game configured with one mine has exactly
\* three safe cells, and is won exactly when they are all open.
C29_ThreeSafeCells ==
  (state.config = TwoByTwo /\ state.status # "idle") =>
    /\ Cardinality({ q \in Positions : ~CellAt(q).isMine }) = 3
    /\ state.status = "won" <=> AllSafeOpen

\* C29, amended: on a 2x2 board the exclusion zone of the first open is the
\* whole board, so no mine is placed; the first open opens all four cells
\* and the game is won at once.
C29_TwoByTwoHasNoMine ==
  (state.config = TwoByTwo /\ state.status # "idle") =>
    /\ Mines = {}
    /\ \A q \in Positions : CellAt(q).isOpen
    /\ state.status = "won"

C29_Witness ==
  /\ state.config = TwoByTwo
  /\ lastOp = "open"
  /\ state.status = "won"
  /\ Cardinality(OpenOf(state.board)) = 4

\* C30: outside the lost status no mine is open.
C30_NoOpenMineUnlessLost ==
  state.status \in {"idle", "playing", "won"} =>
    \A q \in Positions : CellAt(q).isMine => ~CellAt(q).isOpen

C30_Witness ==
  /\ state.status = "won"
  /\ lastOp = "chord"
  /\ Cardinality(Mines) >= 2
  /\ \E q \in Mines : ~CellAt(q).isFlagged
  /\ \A q \in Mines : ~CellAt(q).isOpen

\* the cells of board b that carry a flag
FlaggedOf(b) == { q \in PositionsOf(b) : At(b, q[1], q[2]).isFlagged }

\* C31: while the game is idle, in play or won, no cell is both open and
\* flagged; and a step that opens a flagged cell is a step into lost.
C31_NoOpenFlaggedBeforeLoss ==
  [][/\ state'.status # "lost" =>
          OpenOf(state'.board) \cap FlaggedOf(state'.board) = {}
     /\ (\E q \in FlaggedOf(state.board) \cap PositionsOf(state'.board) :
            /\ ~At(state.board, q[1], q[2]).isOpen
            /\ At(state'.board, q[1], q[2]).isOpen
            /\ lastOp' # "reset")
          => state'.status = "lost" /\ state.status # "lost"]_vars

C31_Witness ==
  /\ state.status \in {"playing", "won"}
  /\ lastOp \in {"open", "chord"}
  /\ Cardinality(Flagged) >= 2
  /\ \A q \in Flagged : ~CellAt(q).isOpen
  /\ \E q \in Flagged : \E z \in Positions : Adjacent(z, q) /\ CellAt(z).isOpen

\* C32: whatever open or chordOpen returns has the flagCount, the config
\* and the flagged cells of the state it was given.
C32_RevealsKeepFlags ==
  \A p \in Positions :
    \A next \in openCell(state, p[1], p[2]) \cup {chordOpen(state, p[1], p[2])} :
      /\ next.flagCount = state.flagCount
      /\ next.config = state.config
      /\ FlaggedOf(next.board) = Flagged

C32_Witness ==
  /\ state.status = "lost"
  /\ lastOp = "chord"
  /\ state.flagCount >= 2
  /\ \E q \in Flagged : CellAt(q).isMine /\ CellAt(q).isOpen
  /\ \E q \in Flagged : ~CellAt(q).isMine /\ ~CellAt(q).isOpen

\* C33: a step that is not a reset closes no cell.
C33_RevealsMonotonic ==
  [][lastOp' # "reset" =>
       /\ OpenOf(state.board) \subseteq OpenOf(state'.board)
       /\ Cardinality(OpenOf(state'.board)) >= Cardinality(OpenOf(state.board))]_vars

C33_Witness ==
  /\ state.status = "lost"
  /\ lastOp = "open"
  /\ Cardinality(OpenOf(state.board)) >= 5
  /\ \E q \in Positions : ~CellAt(q).isOpen

\* C34: the status is idle exactly when no cell is open, and an idle board
\* has no mine, no flag, no count and flagCount 0.
C34_IdleIffPristine ==
  /\ state.status = "idle" <=> OpenOf(state.board) = {}
  /\ state.status = "idle" =>
       /\ Mines = {}
       /\ Flagged = {}
       /\ \A q \in Positions : CellAt(q).neighborCount = 0
       /\ state.flagCount = 0

C34_Witness ==
  /\ state.status = "idle"
  /\ lastOp = "reset"
  /\ state.config.rows * state.config.cols >= 6
  /\ state.config.mines >= 2

\* C35: toggleFlag applied twice to the same cell gives back the state it
\* started from, in every status and for every cell.
C35_ToggleInvolution ==
  \A p \in Positions :
    toggleFlag(toggleFlag(state, p[1], p[2]), p[1], p[2]) = state

C35_Witness ==
  /\ state.status = "playing"
  /\ lastOp = "flag"
  /\ state.flagCount = 0
  /\ \E p \in Positions : toggleFlag(state, p[1], p[2]) # state

\* handleClick of a cell rendered from state s, with no long press pending:
\* nothing on a finished game or a flagged cell, onChord on an open numbered
\* cell, onOpen on a closed cell.  The result is the set of states the
\* engine may install.
clickOn(s, row, col) ==
  LET cell == At(s.board, row, col)
      gameOver == s.status = "won" \/ s.status = "lost" IN
    IF gameOver \/ cell.isFlagged THEN {s}
    ELSE IF cell.isOpen /\ cell.neighborCount > 0 THEN {chordOpen(s, row, col)}
    ELSE IF ~cell.isOpen THEN openCell(s, row, col)
    ELSE {s}

\* C36 (as stated): open twice equals open once, chordOpen twice equals
\* chordOpen once, and a second click on the same cell, dispatched on the
\* cell as rendered after the first click, leaves the state of the first
\* click unchanged.
C36_DuplicateClickHarmless ==
  \A p \in Positions :
    /\ \A once \in openCell(state, p[1], p[2]) :
         openCell(once, p[1], p[2]) = {once}
    /\ chordOpen(chordOpen(state, p[1], p[2]), p[1], p[2])
         = chordOpen(state, p[1], p[2])
    /\ \A once \in clickOn(state, p[1], p[2]) :
         clickOn(once, p[1], p[2]) = {once}

\* C36 (amended): open twice equals open once and chordOpen twice equals
\* chordOpen once, for every cell and in every reachable state.
C36_Idempotent ==
  \A p \in Positions :
    /\ \A once \in openCell(state, p[1], p[2]) :
         openCell(once, p[1], p[2]) = {once}
    /\ chordOpen(chordOpen(state, p[1], p[2]), p[1], p[2])
         = chordOpen(state, p[1], p[2])

C36_Witness ==
  /\ state.status = "playing"
  /\ lastOp = "flag"
  /\ \E p \in Positions : chordOpen(state, p[1], p[2]) # state
  /\ \E p \in Positions : \E once \in openCell(state, p[1], p[2]) : once # state

\* ------------------------------------------- first open on larger boards
\* The engine started on boards that have cells left over once the 3x3 zone
\* of the first click is excluded: every first click, every choice of
\* Math.random, then flags on the resulting board.
MaxPlaceRows == 3
MaxPlaceCols == 4
MaxPlaceCells == 12
MaxPlaceMines == 3
MaxPlaceFlags == 1

PlaceConfigs ==
  { cfg \in [rows : 1..MaxPlaceRows, cols : 1..MaxPlaceCols, mines : 0..MaxPlaceMines] :
      /\ cfg.rows * cfg.cols <= MaxPlaceCells
      /\ cfg.rows * cfg.cols > 9 }

InitPlace ==
  /\ \E initialConfig \in PlaceConfigs : state = create(initialConfig)
  /\ lastOp = "create"
  /\ firstClick = << >>
  /\ NoRender /\ NoFlood /\ NoForm /\ NoUi

\* the first openCell of the game
PlaceOpen(row, col) ==
  /\ state.status = "idle"
  /\ isValidCell(row, col, state.config.rows, state.config.cols)
  /\ \E next \in openCell(state, row, col) : state' = next
  /\ lastOp' = "open"
  /\ firstClick' = <<row, col>>
  /\ UNCHANGED <<renderVars, floodVars, formVars, uiVars>>

\* toggleFlag on the board the first open left
PlaceFlag(row, col) ==
  /\ state.status = "playing"
  /\ isValidCell(row, col, state.config.rows, state.config.cols)
  /\ state.flagCount < MaxPlaceFlags \/ At(state.board, row, col).isFlagged
  /\ toggleFlag(state, row, col) # state
  /\ state' = toggleFlag(state, row, col)
  /\ lastOp' = "flag"
  /\ UNCHANGED <<firstClick, renderVars, floodVars, formVars, uiVars>>

NextPlace ==
  \/ \E row \in 0..(MaxPlaceRows - 1), col \in 0..(MaxPlaceCols - 1) : PlaceOpen(row, col)
  \/ \E row \in 0..(MaxPlaceRows - 1), col \in 0..(MaxPlaceCols - 1) : PlaceFlag(row, col)

SpecPlace == InitPlace /\ [][NextPlace]_vars

\* C37: when config.mines <= rows*cols - 9, the board after the first open
\* holds exactly config.mines mines whatever cell was clicked, and
\* remainingMines is that true number of mines minus flagCount.
C37_AllMinesPlaced ==
  (state.status # "idle" /\ state.config.mines <= state.config.rows * state.config.cols - 9)
    => /\ Cardinality(Mines) = state.config.mines
       /\ remainingMines(state) = Cardinality(Mines) - state.flagCount

C37_Witness ==
  /\ state.status # "idle"
  /\ lastOp = "open"
  /\ state.config.mines = state.config.rows * state.config.cols - 9
  /\ state.config.mines >= 2
  /\ Cardinality(Zone(firstClick)) = 9
  /\ Cardinality(Mines) = state.config.mines

\* ------------------------------------------------- the elapsed-time counter
\* App.tsx keeps `time` in a useState and a one-second interval in timerRef.
\* The effect on [status] runs with the render that follows a handler, so a
\* handler that changes the status, the render and the effect are one step.
\* The game is the engine itself, on one-row boards.
MAX_TIME == 999
MaxTimerCols == 5
MaxTimerFlags == 1

TimerConfigs == [rows : {1}, cols : 1..MaxTimerCols, mines : 0..1]

\* window.setInterval returns an id no running interval has
setInterval(running) ==
  CHOOSE id \in 1..(Cardinality(running) + 1) : id \notin running

clearInterval(running, id) == running \ {id}

\* faulty variant: the interval is never cleared
timerEffect_neverCleared(prevStatus, status, ref, running) ==
  IF prevStatus = status THEN [timerRef |-> ref, intervals |-> running]
  ELSE IF status = "playing"
    THEN LET id == setInterval(running)
         IN  [timerRef |-> <<id>>, intervals |-> running \cup {id}]
    ELSE [timerRef |-> << >>, intervals |-> running]

\* the effect on [status]: when the status of the new render differs from
\* the previous one, the cleanup of the previous run, then the body
timerEffect(prevStatus, status, ref, running) ==
  IF prevStatus = status THEN [timerRef |-> ref, intervals |-> running]
  ELSE
    LET cleaned == IF ref # << >> THEN clearInterval(running, ref[1]) ELSE running
    IN  IF status = "playing"
          THEN LET id == setInterval(cleaned)
               IN  [timerRef |-> <<id>>, intervals |-> cleaned \cup {id}]
          ELSE IF ref # << >>
            THEN [timerRef |-> << >>, intervals |-> clearInterval(cleaned, ref[1])]
            ELSE [timerRef |-> ref, intervals |-> cleaned]

InitTimer ==
  /\ \E initialConfig \in TimerConfigs : state = create(initialConfig)
  /\ lastOp = "create"
  /\ firstClick = << >>
  /\ time = 0
  /\ timerRef = << >>
  /\ intervals = {}
  /\ NoRender /\ NoFlood /\ NoForm /\ NoCell

\* the render and the effect that follow a handler which installed `next`
Rerender(next) ==
  LET after == timerEffect(state.status, next.status, timerRef, intervals)
  IN  /\ timerRef' = after.timerRef
      /\ intervals' = after.intervals

TimerOpen(row, col) ==
  /\ isValidCell(row, col, state.config.rows, state.config.cols)
  /\ \E next \in openCell(state, row, col) :
       /\ next # state
       /\ state' = next
       /\ Rerender(next)
  /\ lastOp' = "open"
  /\ firstClick' = IF state.status = "idle" THEN <<row, col>> ELSE firstClick
  /\ UNCHANGED <<time, renderVars, floodVars, formVars, cellVars>>

TimerFlag(row, col) ==
  /\ isValidCell(row, col, state.config.rows, state.config.cols)
  /\ state.flagCount < MaxTimerFlags \/ At(state.board, row, col).isFlagged
  /\ toggleFlag(state, row, col) # state
  /\ state' = toggleFlag(state, row, col)
  /\ Rerender(toggleFlag(state, row, col))
  /\ lastOp' = "flag"
  /\ UNCHANGED <<time, firstClick, renderVars, floodVars, formVars, cellVars>>

TimerChord(row, col) ==
  /\ isValidCell(row, col, state.config.rows, state.config.cols)
  /\ chordOpen(state, row, col) # state
  /\ state' = chordOpen(state, row, col)
  /\ Rerender(chordOpen(state, row, col))
  /\ lastOp' = "chord"
  /\ UNCHANGED <<time, firstClick, renderVars, floodVars, formVars, cellVars>>

\* handleReset: setTime(0) and reset()
handleReset ==
  /\ time' = 0
  /\ state' = reset(state, << >>)
  /\ Rerender(reset(state, << >>))
  /\ lastOp' = "reset"
  /\ firstClick' = << >>
  /\ UNCHANGED <<renderVars, floodVars, formVars, cellVars>>

\* handleApplySettings as far as the timer and the engine go: setTime(0)
\* and reset(nextConfig)
applySettings(nextConfig) ==
  /\ time' = 0
  /\ state' = reset(state, <<nextConfig>>)
  /\ Rerender(reset(state, <<nextConfig>>))
  /\ lastOp' = "reset"
  /\ firstClick' = << >>
  /\ UNCHANGED <<renderVars, floodVars, formVars, cellVars>>

\* the interval callback: setTime(t => Math.min(t + 1, 999))
Tick ==
  /\ intervals # {}
  /\ time' = Min(time + 1, MAX_TIME)
  /\ UNCHANGED <<gameVars, timerRef, intervals, renderVars, floodVars, formVars, cellVars>>

NextTimer ==
  \/ \E col \in 0..(MaxTimerCols - 1) : TimerOpen(0, col)
  \/ \E col \in 0..(MaxTimerCols - 1) : TimerFlag(0, col)
  \/ \E col \in 0..(MaxTimerCols - 1) : TimerChord(0, col)
  \/ handleReset
  \/ \E nextConfig \in TimerConfigs : applySettings(nextConfig)
  \/ Tick

SpecTimer == InitTimer /\ [][NextTimer]_vars

LONG_PRESS_DURATION == 500
MOVE_THRESHOLD == 25
RESET_DELAY == 300
TAP_DELAY == 50

MaxCellCols == 4

CellConfigs == [rows : {1}, cols : {MaxCellCols}, mines : {1}]

\* Date.now()
now == LONG_PRESS_DURATION + TAP_DELAY

\* the steps by which time passes
Delays == {TAP_DELAY, RESET_DELAY, LONG_PRESS_DURATION}

\* distances of the finger or pointer from where it went down, in px
Distances == {MOVE_THRESHOLD, MOVE_THRESHOLD + 1}

\* a stored time, d ms later
Earlier(t, d) == Max(0, t - d)

\* the props of the Cell as the last render passed them
Props ==
  [gameOver |-> state.status = "won" \/ state.status = "lost",
   isOpen |-> At(state.board, cellPos[1], cellPos[2]).isOpen,
   isFlagged |-> At(state.board, cellPos[1], cellPos[2]).isFlagged,
   neighborCount |-> At(state.board, cellPos[1], cellPos[2]).neighborCount]

\* the props a timeout's callback reads from its closure when it reads none
NoClosure == [gameOver |-> FALSE, isOpen |-> FALSE, isFlagged |-> FALSE, neighborCount |-> 0]

\* window.setTimeout(callback, delay) called by the latest gesture: the
\* pending timeout, with an id that no pending timeout has and that ref does
\* not hold; closure holds the props the callback reads from its closure.
\* The id of a "reset" timeout is never stored nor cleared and its callback
\* only assigns false to hasLongPressedRef, so "reset" timeouts that are due
\* at the same time are one pending timeout, of id 0.
setTimeout(ref, callback, delay, closure) ==
  [id |-> IF callback = "reset" THEN 0
          ELSE CHOOSE i \in 1..(Cardinality(timeouts) + 2) :
                 (\A t \in timeouts : t.id # i) /\ ref # <<i>>,
   callback |-> callback,
   due |-> now + delay,
   latest |-> TRUE,
   closure |-> closure]

\* clearLongPressTimer: the timeouts of `pending` it leaves
clearLongPressTimer(ref, pending) ==
  IF ref # << >> THEN { t \in pending : t.id # ref[1] } ELSE pending

\* faulty variant: handleClick without the hasLongPressedRef guard
clickCallback_noLongPressGuard(hasLongPressed, p) ==
  IF p.gameOver \/ p.isFlagged THEN "none"
  ELSE IF p.isOpen /\ p.neighborCount > 0 THEN "onChord"
  ELSE IF ~p.isOpen THEN "onOpen"
  ELSE "none"

\* handleClick: the callback it invokes, "none" when it returns early
clickCallback(hasLongPressed, p) ==
  IF hasLongPressed THEN "none"
  ELSE IF p.gameOver \/ p.isFlagged THEN "none"
  ELSE IF p.isOpen /\ p.neighborCount > 0 THEN "onChord"
  ELSE IF ~p.isOpen THEN "onOpen"
  ELSE "none"

\* the body of the 50 ms timeout of a short press, p being the props its
\* closure holds
tapCallback(hasLongPressed, p) ==
  IF ~hasLongPressed /\ ~p.gameOver /\ ~p.isFlagged
    THEN IF p.isOpen /\ p.neighborCount > 0 THEN "onChord"
         ELSE IF ~p.isOpen THEN "onOpen"
         ELSE "none"
    ELSE "none"

\* onOpen, onFlag, onChord as Board binds them to the cell: the engine call
\* on cellPos; a call made for the latest gesture is recorded
Invoke(callback, latest) ==
  IF callback = "none" THEN UNCHANGED <<gameVars, invoked>>
  ELSE
    /\ invoked' = IF latest THEN Append(invoked, callback) ELSE invoked
    /\ \E next \in (IF callback = "onOpen" THEN openCell(state, cellPos[1], cellPos[2])
                    ELSE IF callback = "onFlag" THEN {toggleFlag(state, cellPos[1], cellPos[2])}
                    ELSE {chordOpen(state, cellPos[1], cellPos[2])}) :
         /\ state' = next
         /\ lastOp' = IF next = state THEN lastOp
                      ELSE IF callback = "onOpen" THEN "open"
                      ELSE IF callback = "onFlag" THEN "flag" ELSE "chord"
         /\ firstClick' = IF callback = "onOpen" /\ state.status = "idle" /\ next # state
                            THEN cellPos ELSE firstClick

\* no finger or button is down on the cell
FingerUp ==
  IF touches = << >> THEN TRUE
  ELSE touches[1].phase \notin {"down", "pointerdown", "pointerup"}

\* the pending timeouts once a new gesture has begun
Aged == { [t EXCEPT !.latest = FALSE] : t \in timeouts }

\* a new gesture begins on the cell
Begin(pointerType, phase) ==
  /\ FingerUp
  /\ touches' = <<[phase |-> phase, pointerType |-> pointerType,
                   downAt |-> now, short |-> FALSE, long |-> FALSE, at |-> 0, moved |-> 0,
                   props |-> Props]>>

\* the gesture in progress goes on, the pointer being at distance `at`;
\* when the finger or button goes up, whether it was held for less or for
\* longer than the long-press duration is recorded
Continue(from, to, at) ==
  /\ touches # << >>
  /\ touches[1].phase = from
  /\ touches' = <<[touches[1] EXCEPT
                     !.phase = to, !.at = at, !.moved = Max(@, at),
                     !.short = IF from = "down" /\ to # "down"
                                 THEN now - touches[1].downAt < LONG_PRESS_DURATION
                                 ELSE @,
                     !.long = IF from = "down" /\ to # "down"
                                THEN now - touches[1].downAt > LONG_PRESS_DURATION
                                ELSE @,
                     !.downAt = IF to = "down" THEN @ ELSE 0]>>

\* d ms pass, at most up to the next timeout that is due; a click that has
\* not followed the release by now will not follow
Advance(d) ==
  /\ \A t \in timeouts : t.due >= now + d
  /\ timeouts' = { [t EXCEPT !.due = Earlier(@, d)] : t \in timeouts }
  /\ touchStartTimeRef' = Earlier(touchStartTimeRef, d)
  /\ pointerStartTimeRef' = Earlier(pointerStartTimeRef, d)
  /\ touches' = IF touches = << >> THEN touches
                ELSE <<[touches[1] EXCEPT
                          !.downAt = Earlier(@, d),
                          !.phase = IF @ = "released" THEN "ended" ELSE @]>>
  /\ UNCHANGED <<gameVars, cellPos, invoked, longPressTimerRef, hasLongPressedRef,
                 touchStartPosRef, isTouchActiveRef,
                 pointerStartPosRef, isPointerDownRef, isNativeTouchHandledRef,
                 renderVars, floodVars, formVars, timerVars>>

\* between two gestures on the cell, a click on another cell of the board
\* opens it
OtherOpen(row, col) ==
  /\ FingerUp
  /\ touches # << >> => touches[1].phase # "released"
  /\ isValidCell(row, col, state.config.rows, state.config.cols)
  /\ <<row, col>> # cellPos
  /\ \E next \in openCell(state, row, col) :
       /\ next # state
       /\ state' = next
  /\ lastOp' = "open"
  /\ firstClick' = IF state.status = "idle" THEN <<row, col>> ELSE firstClick
  /\ UNCHANGED <<cellVars, renderVars, floodVars, formVars, timerVars>>

\* --------------------------------------- the Cell with native touch events
InitTouch ==
  /\ \E initialConfig \in CellConfigs :
       /\ state = create(initialConfig)
       /\ \E col \in 0..(initialConfig.cols - 1) : cellPos = <<0, col>>
  /\ lastOp = "create"
  /\ firstClick = << >>
  /\ timeouts = {}
  /\ invoked = << >>
  /\ touches = << >>
  /\ longPressTimerRef = << >>
  /\ hasLongPressedRef = FALSE
  /\ touchStartTimeRef = 0
  /\ touchStartPosRef = << >>
  /\ isTouchActiveRef = FALSE
  /\ NoPointerRefs
  /\ NoRender /\ NoFlood /\ NoForm /\ NoTimer

touchFrame == <<cellPos, pointerRefs, renderVars, floodVars, formVars, timerVars>>

\* touchstart
TouchStart ==
  /\ Begin("touch", "down")
  /\ invoked' = << >>
  /\ IF Props.gameOver \/ Props.isOpen
       THEN /\ timeouts' = Aged
            /\ UNCHANGED <<longPressTimerRef, hasLongPressedRef, touchRefs>>
       ELSE LET timer == setTimeout(longPressTimerRef, "longPress", LONG_PRESS_DURATION, NoClosure)
            IN  /\ isTouchActiveRef' = TRUE
                /\ touchStartTimeRef' = now
                /\ touchStartPosRef' = <<0>>
                /\ hasLongPressedRef' = FALSE
                /\ longPressTimerRef' = <<timer.id>>
                /\ timeouts' = Aged \cup {timer}
  /\ UNCHANGED <<gameVars, touchFrame>>

\* the long-press timeout set by touchstart
TouchLongPress ==
  \E timer \in timeouts :
    /\ timer.callback = "longPress"
    /\ timer.due <= now
    /\ IF isTouchActiveRef /\ touchStartPosRef # << >>
         THEN /\ hasLongPressedRef' = TRUE
              /\ Invoke("onFlag", timer.latest)
              /\ timeouts' = clearLongPressTimer(longPressTimerRef, timeouts \ {timer})
              /\ longPressTimerRef' = << >>
         ELSE /\ timeouts' = timeouts \ {timer}
              /\ UNCHANGED <<hasLongPressedRef, longPressTimerRef, gameVars, invoked>>
    /\ UNCHANGED <<touches, touchRefs, touchFrame>>

\* touchmove to distance d from the start of the touch
TouchMove(d) ==
  /\ Continue("down", "down", d)
  /\ IF ~isTouchActiveRef \/ touchStartPosRef = << >>
       THEN UNCHANGED <<timeouts, longPressTimerRef, touchRefs>>
       ELSE IF d > MOVE_THRESHOLD
         THEN /\ timeouts' = clearLongPressTimer(longPressTimerRef, timeouts)
              /\ longPressTimerRef' = << >>
              /\ touchStartPosRef' = << >>
              /\ touchStartTimeRef' = 0
              /\ isTouchActiveRef' = FALSE
         ELSE UNCHANGED <<timeouts, longPressTimerRef, touchRefs>>
  /\ UNCHANGED <<gameVars, invoked, hasLongPressedRef, touchFrame>>

\* touchend
TouchEnd ==
  /\ Continue("down", "released", touches[1].at)
  /\ IF ~isTouchActiveRef
       THEN UNCHANGED <<timeouts, longPressTimerRef, touchRefs>>
       ELSE
         /\ isTouchActiveRef' = FALSE
         /\ touchStartPosRef' = << >>
         /\ touchStartTimeRef' = 0
         /\ IF hasLongPressedRef
              THEN /\ timeouts' = timeouts \cup
                        {setTimeout(longPressTimerRef, "reset", RESET_DELAY, NoClosure)}
                   /\ UNCHANGED longPressTimerRef
              ELSE LET touchDuration == now - touchStartTimeRef
                       moveDistance == touches[1].at
                       cleared == clearLongPressTimer(longPressTimerRef, timeouts)
                   IN  /\ longPressTimerRef' = << >>
                       /\ IF /\ touchStartPosRef # << >>
                             /\ touchDuration < LONG_PRESS_DURATION
                             /\ moveDistance < MOVE_THRESHOLD
                             /\ touchDuration > 0
                            THEN timeouts' = cleared \cup
                                   {setTimeout(longPressTimerRef, "tap", TAP_DELAY, Props)}
                            ELSE timeouts' = cleared
  /\ UNCHANGED <<gameVars, invoked, hasLongPressedRef, touchFrame>>

\* touchcancel
TouchCancel ==
  /\ Continue("down", "cancelled", touches[1].at)
  /\ isTouchActiveRef' = FALSE
  /\ timeouts' = clearLongPressTimer(longPressTimerRef, timeouts)
  /\ longPressTimerRef' = << >>
  /\ touchStartPosRef' = << >>
  /\ touchStartTimeRef' = 0
  /\ hasLongPressedRef' = FALSE
  /\ UNCHANGED <<gameVars, invoked, touchFrame>>

\* the 300 ms timeout set by the release that follows a long press
ResetTimeout ==
  \E timer \in timeouts :
    /\ timer.callback = "reset"
    /\ timer.due <= now
    /\ timeouts' = timeouts \ {timer}
    /\ hasLongPressedRef' = FALSE
    /\ UNCHANGED <<gameVars, invoked, touches, longPressTimerRef, touchRefs, touchFrame>>

\* the 50 ms timeout set by the release of a short press
TapTimeout ==
  \E timer \in timeouts :
    /\ timer.callback = "tap"
    /\ timer.due <= now
    /\ timeouts' = timeouts \ {timer}
    /\ Invoke(tapCallback(hasLongPressedRef, timer.closure), timer.latest)
    /\ UNCHANGED <<touches, longPressTimerRef, hasLongPressedRef, touchRefs, touchFrame>>

\* the click the browser dispatches right after the release: handleClick
Click ==
  /\ Continue("released", "clicked", touches[1].at)
  /\ Invoke(clickCallback(hasLongPressedRef, Props), TRUE)
  /\ UNCHANGED <<timeouts, longPressTimerRef, hasLongPressedRef, touchRefs, touchFrame>>

NextTouch ==
  \/ TouchStart
  \/ TouchLongPress
  \/ \E d \in Distances : TouchMove(d)
  \/ TouchEnd
  \/ TouchCancel
  \/ ResetTimeout
  \/ TapTimeout
  \/ Click
  \/ \E d \in Delays : Advance(d)
  \/ \E col \in 0..(MaxCellCols - 1) : OtherOpen(0, col)

SpecTouch == InitTouch /\ [][NextTouch]_vars

\* ------------------------------------- the Cell with pointer events
\* The version of the component that handles onPointerDown, onPointerMove,
\* onPointerUp and onPointerCancel, with native touch listeners as a
\* fallback.  A mouse press is pointerdown, pointerup, click; a touch is
\* pointerdown, touchstart, pointerup, touchend, click.
InitPointer ==
  /\ \E initialConfig \in CellConfigs :
       /\ state = create(initialConfig)
       /\ \E col \in 0..(initialConfig.cols - 1) : cellPos = <<0, col>>
  /\ lastOp = "create"
  /\ firstClick = << >>
  /\ timeouts = {}
  /\ invoked = << >>
  /\ touches = << >>
  /\ longPressTimerRef = << >>
  /\ hasLongPressedRef = FALSE
  /\ pointerStartTimeRef = 0
  /\ pointerStartPosRef = << >>
  /\ isPointerDownRef = FALSE
  /\ isNativeTouchHandledRef = FALSE
  /\ NoTouchRefs
  /\ NoRender /\ NoFlood /\ NoForm /\ NoTimer

pointerFrame == <<cellPos, touchRefs, renderVars, floodVars, formVars, timerVars>>

\* pointerdown of the left mouse button or of a touch
PointerDown(pointerType) ==
  /\ Begin(pointerType, IF pointerType = "touch" THEN "pointerdown" ELSE "down")
  /\ invoked' = << >>
  /\ IF \/ pointerType = "touch" /\ isNativeTouchHandledRef
        \/ Props.gameOver \/ Props.isOpen
       THEN /\ timeouts' = Aged
            /\ UNCHANGED <<longPressTimerRef, hasLongPressedRef, pointerRefs>>
       ELSE LET timer == setTimeout(longPressTimerRef, "longPress", LONG_PRESS_DURATION, NoClosure)
            IN  /\ pointerStartTimeRef' = now
                /\ pointerStartPosRef' = <<0>>
                /\ hasLongPressedRef' = FALSE
                /\ isPointerDownRef' = TRUE
                /\ isNativeTouchHandledRef' = IF pointerType = "touch" THEN FALSE
                                              ELSE isNativeTouchHandledRef
                /\ longPressTimerRef' = <<timer.id>>
                /\ timeouts' = Aged \cup {timer}
  /\ UNCHANGED <<gameVars, pointerFrame>>

\* the native touchstart that follows the pointerdown of a touch
NativeTouchStart ==
  /\ Continue("pointerdown", "down", touches[1].at)
  /\ IF isPointerDownRef \/ Props.gameOver \/ Props.isOpen
       THEN UNCHANGED <<timeouts, longPressTimerRef, hasLongPressedRef, pointerRefs>>
       ELSE LET timer == setTimeout(longPressTimerRef, "longPress", LONG_PRESS_DURATION, NoClosure)
            IN  /\ isNativeTouchHandledRef' = TRUE
                /\ pointerStartTimeRef' = now
                /\ pointerStartPosRef' = <<0>>
                /\ hasLongPressedRef' = FALSE
                /\ longPressTimerRef' = <<timer.id>>
                /\ timeouts' = timeouts \cup {timer}
                /\ UNCHANGED isPointerDownRef
  /\ UNCHANGED <<gameVars, invoked, pointerFrame>>

\* the long-press timeout set by pointerdown or by the native touchstart
PointerLongPress ==
  \E timer \in timeouts :
    /\ timer.callback = "longPress"
    /\ timer.due <= now
    /\ IF pointerStartPosRef # << >>
         THEN /\ hasLongPressedRef' = TRUE
              /\ Invoke("onFlag", timer.latest)
              /\ timeouts' = clearLongPressTimer(longPressTimerRef, timeouts \ {timer})
              /\ longPressTimerRef' = << >>
         ELSE /\ timeouts' = timeouts \ {timer}
              /\ UNCHANGED <<hasLongPressedRef, longPressTimerRef, gameVars, invoked>>
    /\ UNCHANGED <<touches, pointerRefs, pointerFrame>>

\* pointermove to distance d from where the pointer went down
PointerMove(d) ==
  /\ Continue("down", "down", d)
  /\ IF pointerStartPosRef # << >> /\ d > MOVE_THRESHOLD
       THEN /\ timeouts' = clearLongPressTimer(longPressTimerRef, timeouts)
            /\ longPressTimerRef' = << >>
            /\ pointerStartPosRef' = << >>
            /\ pointerStartTimeRef' = 0
       ELSE UNCHANGED <<timeouts, longPressTimerRef, pointerStartPosRef, pointerStartTimeRef>>
  /\ UNCHANGED <<gameVars, invoked, hasLongPressedRef, isPointerDownRef,
                 isNativeTouchHandledRef, pointerFrame>>

\* what pointerup and the native touchend do once they handle the release:
\* after a long press the 300 ms reset, else the 50 ms timeout of a short
\* press
Release ==
  /\ pointerStartPosRef' = << >>
  /\ pointerStartTimeRef' = 0
  /\ IF hasLongPressedRef
       THEN /\ timeouts' = timeouts \cup
                 {setTimeout(longPressTimerRef, "reset", RESET_DELAY, NoClosure)}
            /\ UNCHANGED longPressTimerRef
       ELSE LET touchDuration == now - pointerStartTimeRef
                moveDistance == touches[1].at
                cleared == clearLongPressTimer(longPressTimerRef, timeouts)
            IN  /\ longPressTimerRef' = << >>
                /\ IF /\ pointerStartPosRef # << >>
                      /\ touchDuration < LONG_PRESS_DURATION
                      /\ moveDistance < MOVE_THRESHOLD
                      /\ touchDuration > 0
                     THEN timeouts' = cleared \cup
                            {setTimeout(longPressTimerRef, "tap", TAP_DELAY, Props)}
                     ELSE timeouts' = cleared

\* pointerup
PointerUp ==
  /\ Continue("down", IF touches[1].pointerType = "touch" THEN "pointerup" ELSE "released",
              touches[1].at)
  /\ isPointerDownRef' = FALSE
  /\ Release
  /\ UNCHANGED <<gameVars, invoked, hasLongPressedRef, isNativeTouchHandledRef, pointerFrame>>

\* the native touchend that follows the pointerup of a touch
NativeTouchEnd ==
  /\ Continue("pointerup", "released", touches[1].at)
  /\ IF ~isNativeTouchHandledRef
       THEN UNCHANGED <<timeouts, longPressTimerRef, pointerRefs>>
       ELSE /\ isNativeTouchHandledRef' = FALSE
            /\ Release
            /\ UNCHANGED isPointerDownRef
  /\ UNCHANGED <<gameVars, invoked, hasLongPressedRef, pointerFrame>>

\* pointercancel
PointerCancel ==
  /\ Continue("down", "cancelled", touches[1].at)
  /\ isPointerDownRef' = FALSE
  /\ timeouts' = clearLongPressTimer(longPressTimerRef, timeouts)
  /\ longPressTimerRef' = << >>
  /\ pointerStartPosRef' = << >>
  /\ pointerStartTimeRef' = 0
  /\ hasLongPressedRef' = FALSE
  /\ UNCHANGED <<gameVars, invoked, isNativeTouchHandledRef, pointerFrame>>

NextPointer ==
  \/ \E pointerType \in {"mouse", "touch"} : PointerDown(pointerType)
  \/ NativeTouchStart
  \/ PointerLongPress
  \/ \E d \in Distances : PointerMove(d)
  \/ PointerUp
  \/ NativeTouchEnd
  \/ PointerCancel
  \/ ResetTimeout
  \/ TapTimeout
  \/ Click
  \/ \E d \in Delays : Advance(d)
  \/ \E col \in 0..(MaxCellCols - 1) : OtherOpen(0, col)

SpecPointer == InitPointer /\ [][NextPointer]_vars

\* the latest gesture went down on a closed cell, was not cancelled, never
\* moved beyond the threshold and has been held for longer than the
\* long-press duration
LongPressed ==
  /\ touches # << >>
  /\ ~touches[1].props.isOpen
  /\ touches[1].phase # "cancelled"
  /\ touches[1].moved <= MOVE_THRESHOLD
  /\ IF touches[1].phase = "down"
       THEN now - touches[1].downAt > LONG_PRESS_DURATION
       ELSE touches[1].long

\* C39 (as stated): a touch held on a closed cell past the long-press
\* duration without moving beyond the threshold has made exactly one
\* callback, onFlag, and its touchend and click add none.
C39_LongPressFlagsOnce ==
  LongPressed => invoked = <<"onFlag">>

\* C39 (amended): the same for a touch that went down while the game was
\* not over.
C39_LongPressFlagsOnceInPlay ==
  (LongPressed /\ ~touches[1].props.gameOver) => invoked = <<"onFlag">>

C39_Witness ==
  /\ LongPressed
  /\ ~touches[1].props.gameOver
  /\ touches[1].phase = "clicked"
  /\ invoked = <<"onFlag">>
  /\ state.status = "playing"
  /\ Props.isFlagged

\* the latest gesture went down on a closed, unflagged cell of a game that
\* was not over, was held for less than the long-press duration without
\* reaching the move threshold, and has been released
ShortPressed ==
  /\ touches # << >>
  /\ ~touches[1].props.isOpen
  /\ ~touches[1].props.isFlagged
  /\ ~touches[1].props.gameOver
  /\ touches[1].phase \in {"released", "clicked", "ended"}
  /\ touches[1].short
  /\ touches[1].moved < MOVE_THRESHOLD

\* C40: a short press on a closed, unflagged cell makes at most one engine
\* callback, and once its click has come and none of its timeouts is
\* pending it has made exactly one, onOpen.
C40_ShortPressOpensOnce ==
  ShortPressed =>
    /\ Len(invoked) <= 1
    /\ (touches[1].phase = "clicked" /\ (\A t \in timeouts : ~t.latest))
         => invoked = <<"onOpen">>

====
